---- MODULE Spec2Model ----
(***************************************************************************)
(* Runtime of the scene player (src/app.js): the per-frame pipeline of the *)
(* three camera managers (tracking, shake, collision) and the keyboard     *)
(* input control manager.                                                  *)
(*                                                                         *)
(* Lengths are fixed-point integers.  In the camera part one unit is 0.05  *)
(* scene units, so the thresholds of the code are 0.05 = 1, 0.1 = 2,       *)
(* 0.2 = 4, 0.5 = 10.  Geometry is taken along the line from the look-at   *)
(* target to the camera, which is the only direction the collision code    *)
(* moves the camera in.                                                    *)
(***************************************************************************)
EXTENDS Integers, Sequences, FiniteSets, TLC

(* ---------------------------- bounds ----------------------------------- *)
\* number of events around the camera in one run: user events (zoom,
\* projection change) and changes of the world (target moved, obstacle)
MaxEvents == 2
\* a frame starts while the collision camera has counted fewer static checks
MaxStatic == 3
\* number of key-down and key-up events in one run
MaxKeyEvents == 4
\* the controlled entity is followed while it is within this box: horizontal
\* position in mm, height in micrometres, heading in turn steps
MaxPos == 300
MaxY == 1500000
MaxHeading == 1
\* number of nodes of a scene description
MaxNodes == 4
\* number of times physics is bound to the same entity
MaxBindings == 2
\* number of scripts in the custom logic manifest, and of frames rendered
MaxScripts == 2
MaxFrames == 2
\* time followed after a call of getUIElement, in units of 50 ms
MaxClock == 7

(* ------------------------ program constants ---------------------------- *)
\* camera.radius of the scene description when the managers scan the scene
InitRadius == 40
\* settings.distance || 10   (app.js:4293); 2.5 scene units here
CollisionDistance == 50
\* settings.cushion || 0.2   (app.js:4294)
Cushion == 4
\* Math.max(0.1, ...) and rayLength < 0.1  (app.js:4334, 4379)
MinDistance == 2
\* Math.abs(camera.radius - lastRadius) > 0.1  (app.js:4198)
ZoomThreshold == 2
\* Math.abs(radiusDiff) > 0.05  (app.js:4400)
RestoreSnap == 1
\* velocity > 0.05 (app.js:4257) and velocity > 0.5 (app.js:4250)
MoveThreshold == 1
FastThreshold == 10
\* staticFrames > 30, staticFrames > 120 (app.js:4247, 4249)
StaticSlow == 30
StaticStop == 120
\* updateInterval values 2, 5, 15 (app.js:4173, 4248-4253)
IntervalFast == 2
IntervalNormal == 5
IntervalSlow == 15
\* camera.getDirection(Forward).scale(5)  (app.js:4220)
LookAhead == 100
\* period of the sampled shake sinusoids (quarter-period samples)
ShakePeriod == 2

Abs(x) == IF x < 0 THEN -x ELSE x
Sign(x) == IF x < 0 THEN -1 ELSE IF x > 0 THEN 1 ELSE 0
Max(a, b) == IF a >= b THEN a ELSE b
Min(a, b) == IF a <= b THEN a ELSE b

\* x * num / den on the fixed-point grid: a non-zero real step is kept
\* non-zero (rounded away from zero), and it never exceeds |x| for num <= den
Scale(x, num, den) == Sign(x) * ((Abs(x) * num + den - 1) \div den)

NoHit == -1

VARIABLES
  cfg,            \* camera descriptor of the scene graph node (read-only)
  pc,             \* position in the render-loop callback, 0 = between frames
  stepLog,        \* steps run so far in the current (or last) frame
  event,          \* name of the last handler that ran
  camera,         \* live camera: target, alpha, beta, radius, position
  shake,          \* shakeState.time, camera._visualShakeOffset, _originalBeforeShake
  cameraData,     \* collision manager record of the camera
  lastRadius,     \* closure variable of setupRadiusTracking
  world,          \* environment: tracked target position, obstacle seen by the ray
  events,         \* number of events so far, by kind: camera, keys
  ghost,          \* history: pre-shake camera values, last user zoom, shake applied
  ic,             \* inputControl descriptor of the controlled node (read-only)
  keyboard,       \* keys the user touches in this run
  activeKeys,     \* manager.activeKeys
  activeKeyBindings, \* manager.activeKeyBindings, each chord as its list of parts
  currentModifiers,  \* manager.currentModifiers
  controlData,    \* isMoving, currentAnimation, jumpState of the controlled node
  object,         \* live entity: position, rotation, control rotation, body velocity
  inputGhost,     \* history: movements applied, jumps started in the air
  graph,          \* nodes of the scene description (read-only)
  objects,        \* live objects in creation order, with their scene membership
  loader,         \* position of instantiateGraph, and what it logged
  target,         \* entity physics is bound to: impostor, raw collider
  applied,        \* number of bindings so far, the last descriptor applied
  manifest,       \* customLogicData.objectLogics, flattened (read-only)
  host,           \* customLogicManager: activeLogics, frames rendered, disposed
  instances,      \* per script of the manifest: what the host did with it
  page,           \* document and UI loader as getUIElement sees them, time
  uiPromise,      \* one call of context.getUIElement: promise, polling timer
  boot            \* the startup function: step reached, what it has set up

camVars == <<cfg, pc, stepLog, event, camera, shake, cameraData, lastRadius, world,
             events, ghost>>

inputVars == <<ic, keyboard, activeKeys, activeKeyBindings, currentModifiers,
               controlData, object, inputGhost>>

graphVars == <<graph, objects, loader>>

physVars == <<target, applied>>

logicVars == <<manifest, host, instances>>

uiVars == <<page, uiPromise>>

bootVars == <<boot>>

restVars == <<uiVars, bootVars>>

loadVars == <<graphVars, physVars, logicVars, restVars>>

vars == <<camVars, inputVars, loadVars>>

(* ----------------------- frame program --------------------------------- *)
\* Observers are notified in the order they were added; the managers are
\* initialized tracking, shake, collision, and each registers only when it
\* found a camera.
\* (variant: the shake manager initialized before the tracking manager)
ManagerInitOrderShakeFirst == <<"shakeApply", "tracking", "collision">>

ManagerInitOrder == <<"tracking", "shakeApply", "collision">>

Registered(c, step) ==
  CASE step = "tracking"   -> c.tracking
    [] step = "shakeApply" -> c.shakePreset # "none"
    [] step = "collision"  -> c.collision

onBeforeRenderObservable(c) ==
  SelectSeq(ManagerInitOrder, LAMBDA s : Registered(c, s))

onAfterRenderObservable(c) ==
  IF c.shakePreset # "none" THEN <<"shakeRestore">> ELSE <<>>

\* engine.runRenderLoop callback: scene.render(), customLogicManager.update,
\* updateSpatialUI
FrameProgram(c) ==
  onBeforeRenderObservable(c) \o <<"render">> \o onAfterRenderObservable(c)
    \o <<"customLogic", "spatialUI">>

\* frames are followed while the static counter is below this: up to
\* MaxStatic for the cameras of the frame pipeline, past StaticStop for the
\* camera that has the collision manager only
StaticLimit(c) ==
  IF c.collision /\ c.shakePreset = "none" /\ ~c.tracking
  THEN StaticStop + 2 ELSE MaxStatic

AtStep(step) ==
  /\ pc < Len(FrameProgram(cfg))
  /\ pc = 0 => cameraData.staticFrames < StaticLimit(cfg)
  /\ FrameProgram(cfg)[pc + 1] = step

\* an event arrives between two frames (the handlers run to completion)
EventLimit == [camera |-> MaxEvents, keys |-> MaxKeyEvents]

CountEvent(kind) ==
  /\ events[kind] < EventLimit[kind]
  /\ events' = [events EXCEPT ![kind] = events[kind] + 1]

BetweenFrames(kind, name) ==
  /\ pc = 0
  /\ CountEvent(kind)
  /\ event' = name
  /\ UNCHANGED <<inputVars, loadVars>>

Advance(step) ==
  /\ pc' = IF pc + 1 = Len(FrameProgram(cfg)) THEN 0 ELSE pc + 1
  /\ stepLog' = IF pc = 0 THEN <<step>> ELSE Append(stepLog, step)
  /\ event' = step
  /\ UNCHANGED <<inputVars, loadVars>>

(* ----------------------- camera tracking ------------------------------- *)
\* updateCameraTargets: only ArcRotate cameras are written
updateCameraTargets(cam, c, w) ==
  IF c.isArc
  THEN [cam EXCEPT !.target = w.targetWorld + c.targetOffset]
  ELSE cam

TrackingUpdate ==
  /\ AtStep("tracking")
  /\ camera' = updateCameraTargets(camera, cfg, world)
  /\ Advance("tracking")
  /\ UNCHANGED <<cfg, shake, cameraData, lastRadius, world, events, ghost>>

(* ----------------------- camera shake ---------------------------------- *)
\* sinusoids sampled at quarter periods; the axes use different frequencies
SinTab == <<1, -1>>
CosTab == <<0, 1>>
shakeOffsetX(t) == SinTab[(t % ShakePeriod) + 1]
shakeAlpha(t)   == SinTab[((t + 1) % ShakePeriod) + 1]
shakeBeta(t)    == CosTab[(t % ShakePeriod) + 1]

\* updateCameraShakes: advance the phase, store the offsets (preset natural)
updateCameraShakes(sh, c, dt) ==
  IF c.shakePreset = "none" THEN sh
  ELSE LET t == (sh.time + dt) % ShakePeriod IN
       IF c.shakePreset = "natural"
       THEN [sh EXCEPT !.time = t,
                       !.offset = [set |-> TRUE, x |-> shakeOffsetX(t),
                                   alpha |-> shakeAlpha(t), beta |-> shakeBeta(t)]]
       ELSE [sh EXCEPT !.time = t]

\* onBeforeRenderObservable handler: save, then apply
ShakeSave(sh, cam, c) ==
  IF c.isArc
  THEN [sh EXCEPT !.original = [set |-> TRUE, alpha |-> cam.alpha, beta |-> cam.beta,
                                target |-> cam.target, position |-> sh.original.position]]
  ELSE [sh EXCEPT !.original = [set |-> TRUE, alpha |-> sh.original.alpha,
                                beta |-> sh.original.beta,
                                target |-> sh.original.target, position |-> cam.position]]

ShakeApplyTo(cam, off, c) ==
  IF c.isArc
  THEN [cam EXCEPT !.target = cam.target + off.x,
                   !.alpha = cam.alpha + off.alpha,
                   !.beta = cam.beta + off.beta]
  ELSE [cam EXCEPT !.position = cam.position + off.x]

\* (variant: the restore forgets beta)
ShakeRestoreSkipsBeta(cam, sh, c) ==
  IF ~sh.original.set THEN cam
  ELSE IF c.isArc
       THEN [cam EXCEPT !.target = sh.original.target,
                        !.alpha = sh.original.alpha]
       ELSE [cam EXCEPT !.position = sh.original.position]

\* onAfterRenderObservable handler
ShakeRestoreTo(cam, sh, c) ==
  IF ~sh.original.set THEN cam
  ELSE IF c.isArc
       THEN [cam EXCEPT !.target = sh.original.target,
                        !.alpha = sh.original.alpha,
                        !.beta = sh.original.beta]
       ELSE [cam EXCEPT !.position = sh.original.position]

ShakeBeforeRender ==
  /\ AtStep("shakeApply")
  /\ LET sh1 == updateCameraShakes(shake, cfg, 1) IN
       IF sh1.offset.set
       THEN /\ shake' = ShakeSave(sh1, camera, cfg)
            /\ camera' = ShakeApplyTo(camera, sh1.offset, cfg)
            /\ ghost' = [ghost EXCEPT !.preShake = camera, !.shaken = TRUE]
       ELSE /\ shake' = sh1
            /\ UNCHANGED <<camera, ghost>>
  /\ Advance("shakeApply")
  /\ UNCHANGED <<cfg, cameraData, lastRadius, world, events>>

ShakeAfterRender ==
  /\ AtStep("shakeRestore")
  /\ camera' = ShakeRestoreTo(camera, shake, cfg)
  /\ ghost' = [ghost EXCEPT !.shaken = FALSE]
  /\ Advance("shakeRestore")
  /\ UNCHANGED <<cfg, shake, cameraData, lastRadius, world, events>>

(* ----------------------- camera collision ------------------------------ *)
\* cameraData.framesSinceCheck stands for lastUpdateFrame - lastCheckFrame,
\* the only way the code uses the two frame counters; it saturates at the
\* largest updateInterval, staticFrames at StaticStop + 1.
CapFrames(n) == Min(n, IntervalSlow)
CapStatic(n) == Min(n, StaticStop + 1)

\* needsUpdate: returns [ok, cd]; it updates the counters even when it
\* answers false
\* (velocity > 0.01 is velocity > 0 on the 0.05 grid)
needsUpdate(cd, cam) ==
  IF cd.framesSinceCheck < cd.updateInterval THEN [ok |-> FALSE, cd |-> cd]
  ELSE
    LET velocity == Abs(cam.position - cd.lastPosition)
        static   == IF velocity > 0 THEN 0 ELSE CapStatic(cd.staticFrames + 1)
        interval == IF static > StaticSlow THEN IntervalSlow
                    ELSE IF velocity > FastThreshold THEN IntervalFast
                    ELSE IntervalNormal
        cd1      == [cd EXCEPT !.staticFrames = static, !.updateInterval = interval]
    IN IF static > StaticStop THEN [ok |-> FALSE, cd |-> cd1]
       ELSE [ok |-> (velocity > MoveThreshold \/ cd.isColliding), cd |-> cd1]

\* fastProximityCheck: is the camera near any cached solid mesh
fastProximityCheck(w) == w.near

\* getTargetPoint
getTargetPoint(cam, c, w) ==
  IF c.isArc THEN cam.target
  ELSE IF c.hasTargetObject THEN w.targetWorld
  ELSE cam.position + LookAhead

\* predictiveCollisionCheck: returns the camera and the record after the check
predictiveCollisionCheck(cd, cam, c, w) ==
  LET targetPoint == getTargetPoint(cam, c, w)
      checkRadius == IF c.isArc THEN Min(cd.desiredRadius, CollisionDistance)
                     ELSE CollisionDistance
      direction   == cam.position - targetPoint
      desiredPosition ==
        IF c.isArc THEN targetPoint + checkRadius
        ELSE IF Abs(direction) > CollisionDistance
             THEN targetPoint + Sign(direction) * CollisionDistance
             ELSE cam.position
      rayLength    == Abs(desiredPosition - targetPoint)
      rayDirection == Sign(desiredPosition - targetPoint)
      isHit        == w.hit # NoHit /\ w.hit > 0 /\ w.hit < rayLength
      collisionDistance == Max(MinDistance, w.hit - Cushion)
  IN
  IF rayLength < MinDistance THEN [cam |-> cam, cd |-> cd]
  ELSE IF isHit THEN
    IF c.isArc
    THEN LET r == cam.radius + Scale(collisionDistance - cam.radius, 1, 5) IN
         [cam |-> [cam EXCEPT !.radius = r],
          cd  |-> [cd EXCEPT !.currentRadius = r, !.isColliding = TRUE]]
    ELSE LET finalPosition == targetPoint + rayDirection * collisionDistance IN
         [cam |-> [cam EXCEPT !.position =
                     cam.position + Scale(finalPosition - cam.position, 1, 10)],
          cd  |-> [cd EXCEPT !.isColliding = TRUE]]
  ELSE
    IF cd.isColliding /\ c.isArc
    THEN LET radiusDiff == cd.desiredRadius - cam.radius IN
         IF Abs(radiusDiff) > RestoreSnap
         THEN LET r == cam.radius + Scale(radiusDiff, 1, 10) IN
              [cam |-> [cam EXCEPT !.radius = r],
               cd  |-> [cd EXCEPT !.currentRadius = r]]
         ELSE [cam |-> [cam EXCEPT !.radius = cd.desiredRadius],
               cd  |-> [cd EXCEPT !.currentRadius = cd.desiredRadius,
                                  !.isColliding = FALSE]]
    ELSE [cam |-> cam, cd |-> [cd EXCEPT !.isColliding = FALSE]]

\* updateCamera
updateCamera(cd, cam, c, w) ==
  LET need == needsUpdate(cd, cam) IN
  IF ~need.ok THEN [cam |-> cam, cd |-> need.cd]
  ELSE IF ~fastProximityCheck(w)
  THEN [cam |-> cam,
        cd  |-> [need.cd EXCEPT !.isColliding = FALSE, !.framesSinceCheck = 0]]
  ELSE LET res == predictiveCollisionCheck(need.cd, cam, c, w) IN
       [cam |-> res.cam,
        cd  |-> [res.cd EXCEPT !.lastPosition = res.cam.position,
                               !.framesSinceCheck = 0]]

\* smartUpdate: the collision manager's before-render observer
CollisionUpdate ==
  /\ AtStep("collision")
  /\ LET cd0 == [cameraData EXCEPT
                   !.framesSinceCheck = CapFrames(cameraData.framesSinceCheck + 1)]
         res == updateCamera(cd0, camera, cfg, world)
     IN /\ camera' = res.cam
        /\ cameraData' = res.cd
  /\ Advance("collision")
  /\ UNCHANGED <<cfg, shake, lastRadius, world, events, ghost>>

\* setupRadiusTracking.checkRadiusChange
checkRadiusChange(cd, cam, last) ==
  IF Abs(cam.radius - last) > ZoomThreshold /\ ~cd.isColliding
  THEN [cd EXCEPT !.desiredRadius = cam.radius, !.staticFrames = 0]
  ELSE cd

(* ----------------------- render and the rest of the frame -------------- *)
\* scene.render(): the engine places an orbit camera at radius from its
\* target and draws the frame
Render ==
  /\ AtStep("render")
  /\ camera' = IF cfg.isArc
               THEN [camera EXCEPT !.position = camera.target + camera.radius]
               ELSE camera
  /\ Advance("render")
  /\ UNCHANGED <<cfg, shake, cameraData, lastRadius, world, events, ghost>>

\* customLogicManager.update(deltaTime)
CustomLogicUpdate ==
  /\ AtStep("customLogic")
  /\ Advance("customLogic")
  /\ UNCHANGED <<cfg, camera, shake, cameraData, lastRadius, world, events, ghost>>

\* updateSpatialUI()
SpatialUIUpdate ==
  /\ AtStep("spatialUI")
  /\ Advance("spatialUI")
  /\ UNCHANGED <<cfg, camera, shake, cameraData, lastRadius, world, events, ghost>>

(* ----------------------- events between frames ------------------------- *)
\* radii the user zooms to (one below, one above the authored radius),
\* positions the tracked entity moves between, distances at which a surface
\* blocks the ray (one inside the cushion, one outside)
ZoomRadii == {30, 60}
TargetPositions == {0, 30}
HitDistances == {3, 20}

\* the user zooms an orbit camera to radius z; the camera's change observable
\* then runs checkRadiusChange on cameras the collision manager registered
Zoom ==
  /\ BetweenFrames("camera", "zoom")
  /\ cfg.isArc
  /\ \E z \in ZoomRadii :
       /\ z # camera.radius
       /\ camera' = [camera EXCEPT !.radius = z]
       /\ ghost' = [ghost EXCEPT !.userRadius = z]
       /\ IF cfg.collision
          THEN /\ cameraData' = checkRadiusChange(cameraData, camera', lastRadius)
               /\ lastRadius' = z
          ELSE UNCHANGED <<cameraData, lastRadius>>
  /\ UNCHANGED <<cfg, pc, stepLog, shake, world>>

\* onProjectionMatrixChangedObservable fires without a zoom (window resize)
ProjectionChanged ==
  /\ BetweenFrames("camera", "projection")
  /\ cfg.isArc /\ cfg.collision
  /\ cameraData' = checkRadiusChange(cameraData, camera, lastRadius)
  /\ lastRadius' = camera.radius
  /\ UNCHANGED <<cfg, pc, stepLog, camera, shake, world, ghost>>

\* the tracked entity moves (locomotion, physics, a script)
MoveTarget ==
  /\ BetweenFrames("camera", "moveTarget")
  /\ \E p \in TargetPositions :
       /\ p # world.targetWorld
       /\ world' = [world EXCEPT !.targetWorld = p]
  /\ UNCHANGED <<cfg, pc, stepLog, camera, shake, cameraData, lastRadius, ghost>>

\* the solid geometry around the camera changes: a mesh comes near or
\* leaves, a surface blocks the ray at distance d or stops blocking it
SetObstacle ==
  /\ BetweenFrames("camera", "setObstacle")
  /\ \E n \in BOOLEAN, h \in HitDistances \cup {NoHit} :
       /\ (h # NoHit) => n
       /\ <<n, h>> # <<world.near, world.hit>>
       /\ world' = [world EXCEPT !.near = n, !.hit = h]
  /\ UNCHANGED <<cfg, pc, stepLog, camera, shake, cameraData, lastRadius, ghost>>

\* positions the user moves a free camera between with the controls attached
\* to it
CameraPositions == {40, 45}

\* camera.attachControl(canvas, true): the user moves a free camera
MoveCamera ==
  /\ BetweenFrames("camera", "moveCamera")
  /\ ~cfg.isArc
  /\ \E p \in CameraPositions :
       /\ p # camera.position
       /\ camera' = [camera EXCEPT !.position = p]
  /\ UNCHANGED <<cfg, pc, stepLog, shake, cameraData, lastRadius, world, ghost>>

(* ======================= input control manager ======================== *)
(* Horizontal positions are in mm, heights in micrometres, vertical        *)
(* velocities in mm/s, horizontal body velocities in m/s, headings in      *)
(* steps of rotateSpeed (0.05 rad).                                        *)

\* rotateSpeed = 0.05 is one heading step (app.js:3659)
RotateStep == 1
\* inputControl.speed || 0.1, in mm (app.js:3658)
BaseSpeed == 100
\* physicsSpeed = currentSpeed * 100, in m/s (app.js:3674)
PhysicsSpeed == 10
\* dampingFactor = 0.85, in percent (app.js:3818)
DampingPercent == 85
\* g = 9.81 in mm/s^2 (app.js:3742, 3846)
Gravity == 9810
\* deltaTime = 0.016 in ms (app.js:3847)
TickMs == 16
\* Math.abs(vel.y) < 0.5 in mm/s (app.js:3725, 3838)
RestSpeed == 500
\* groundY + 0.5 in micrometres (app.js:3838)
LandBand == 500000
\* groundY + 0.001 in micrometres (app.js:3741)
GroundEps == 1000

\* division that truncates toward zero, as the float product does after
\* dropping the fraction
TruncDiv(a, b) == Sign(a) * (Abs(a) \div b)

RECURSIVE ISqrtBetween(_, _, _)
\* the r with lo <= r < hi and r * r <= n < (r + 1) * (r + 1), by bisection
ISqrtBetween(n, lo, hi) ==
  IF hi - lo <= 1 THEN lo
  ELSE LET mid == (lo + hi) \div 2
       IN IF mid * mid <= n THEN ISqrtBetween(n, mid, hi)
          ELSE ISqrtBetween(n, lo, mid)
\* floor of the square root of a 31-bit number
ISqrt(n) == ISqrtBetween(n, 0, 46341)

\* v0 = Math.sqrt(2 * g * jumpHeight) in mm/s, jumpHeight in mm
JumpSpeed(jumpHeight) == ISqrt(2 * Gravity * jumpHeight)

\* (variant: the tracked velocity is not integrated against gravity)
GravityPerTickDropped == (Gravity * TickMs) \div (1000 * Gravity * TickMs)

\* gravity * deltaTime in mm/s, rounded
GravityPerTick == (Gravity * TickMs + 500) \div 1000

\* sin and cos of a heading of k steps, times 1000 (|k| <= 2)
SinMilli(k) == 50 * k
CosMilli(k) == 1000 - (5 * k * k) \div 4

\* createKeyBindingString: the parts joined by '+'
createKeyBindingString(ctrl, shift, alt, key) ==
  (IF ctrl THEN <<"ctrl">> ELSE <<>>) \o (IF shift THEN <<"shift">> ELSE <<>>)
    \o (IF alt THEN <<"alt">> ELSE <<>>) \o <<key>>

\* 'Key' + letter for a single upper-case letter
IsUpperLetter(key) == key \in {"W", "A", "S", "D"}
KeyCodeOf(key) ==
  CASE key = "W" -> "KeyW" [] key = "A" -> "KeyA" [] key = "S" -> "KeyS"
    [] key = "D" -> "KeyD" [] OTHER -> key

NoBinding == [none |-> TRUE]

\* keyBindingMatches
keyBindingMatches(keyBinding, activeBindings, mods) ==
  IF keyBinding = NoBinding THEN FALSE
  ELSE IF keyBinding.key = ""
  THEN /\ keyBinding.ctrl = mods.ctrl
       /\ keyBinding.shift = mods.shift
       /\ keyBinding.alt = mods.alt
       /\ (keyBinding.ctrl \/ keyBinding.shift \/ keyBinding.alt)
  ELSE LET originalBinding ==
             createKeyBindingString(keyBinding.ctrl, keyBinding.shift,
                                    keyBinding.alt, keyBinding.key)
           keyCodeBinding ==
             IF IsUpperLetter(keyBinding.key)
             THEN createKeyBindingString(keyBinding.ctrl, keyBinding.shift,
                                         keyBinding.alt, KeyCodeOf(keyBinding.key))
             ELSE originalBinding
       IN originalBinding \in activeBindings \/ keyCodeBinding \in activeBindings

Movements == <<"forward", "backward", "turnLeft", "turnRight", "jump">>

\* the manager state the handlers read
Manager == [activeKeys |-> activeKeys, activeKeyBindings |-> activeKeyBindings,
            currentModifiers |-> currentModifiers]

isSpeedBoosting(c, m) ==
  c.speedBoostEnabled /\ c.speedBoostKey.key # "" /\ c.speedBoostKey.key \in m.activeKeys

\* getForwardDirection: the heading the movement uses
getForwardDirection(c, obj) ==
  IF c.hasPhysics /\ obj.controlRotationSet THEN obj.controlRotation ELSE obj.rotationY

\* applyMovement: st is [cd, obj, log]
applyMovement(movement, st, c, m) ==
  LET obj == st.obj
      cd  == st.cd
      speedMultiplier == IF isSpeedBoosting(c, m) THEN c.speedBoostMultiplier ELSE 1
      h   == getForwardDirection(c, obj)
      dir == IF movement = "backward" THEN -1 ELSE 1
      logged == [st EXCEPT !.log = Append(st.log, movement)]
  IN
  CASE movement \in {"forward", "backward"} ->
         IF c.hasPhysics
         THEN [logged EXCEPT
                 !.obj.velocity.x =
                   TruncDiv(SinMilli(h) * dir * PhysicsSpeed * speedMultiplier, 1000),
                 !.obj.velocity.z =
                   TruncDiv(CosMilli(h) * dir * PhysicsSpeed * speedMultiplier, 1000)]
         ELSE [logged EXCEPT
                 !.obj.position.x = obj.position.x
                   + TruncDiv(SinMilli(h) * dir * BaseSpeed * speedMultiplier, 1000),
                 !.obj.position.z = obj.position.z
                   + TruncDiv(CosMilli(h) * dir * BaseSpeed * speedMultiplier, 1000)]
    [] movement \in {"turnLeft", "turnRight"} ->
         LET delta == IF movement = "turnLeft" THEN -RotateStep ELSE RotateStep IN
         IF c.hasPhysics
         THEN [logged EXCEPT !.obj.controlRotation = obj.controlRotation + delta,
                             !.obj.controlRotationSet = TRUE,
                             !.obj.childRotationY = obj.childRotationY + delta]
         ELSE [logged EXCEPT !.obj.rotationY = obj.rotationY + delta]
    [] movement = "jump" ->
         IF c.hasPhysics
         THEN IF ~cd.jumpState.isJumping /\ Abs(obj.velocity.y) < RestSpeed
              THEN [logged EXCEPT !.obj.velocity.y = JumpSpeed(c.jumpHeight),
                                  !.cd.jumpState.isJumping = TRUE,
                                  !.impulses = Append(st.impulses,
                                                 obj.position.y > obj.floorY)]
              ELSE logged
         ELSE IF ~cd.jumpState.isJumping
                  /\ obj.position.y <= cd.jumpState.groundY + GroundEps
              THEN [logged EXCEPT !.cd.jumpState.isJumping = TRUE,
                                  !.cd.jumpState.jumpVelocity = JumpSpeed(c.jumpHeight),
                                  !.impulses = Append(st.impulses,
                                                 obj.position.y > cd.jumpState.groundY)]
              ELSE logged

\* playMovementAnimation
playMovementAnimation(animationId, cd) ==
  IF animationId = "" THEN cd
  ELSE IF animationId \notin cd.animations THEN cd
  ELSE [cd EXCEPT !.currentAnimation = animationId]

\* playIdleAnimation
playIdleAnimation(cd, c) ==
  IF c.idleAnimationId = "" THEN cd
  ELSE IF ~cd.isMoving THEN playMovementAnimation(c.idleAnimationId, cd)
  ELSE cd

HeldKeyOf(c, movement, m) ==
  c[movement] # NoBinding /\ c[movement].key \in m.activeKeys

\* updateMovementAnimation: priority forward > backward > turnLeft > turnRight > jump
updateMovementAnimation(cd, c, m) ==
  LET held == SelectSeq(Movements, LAMBDA mv : HeldKeyOf(c, mv, m))
      targetAnimation ==
        IF held = <<>> THEN ""
        ELSE IF isSpeedBoosting(c, m) /\ c.speedBoostAnimationId[held[1]] # ""
             THEN c.speedBoostAnimationId[held[1]]
             ELSE c.animationId[held[1]]
  IN IF targetAnimation # "" /\ targetAnimation # cd.currentAnimation
     THEN playMovementAnimation(targetAnimation, cd)
     ELSE cd

\* handleGroundedInput: the first movement whose binding matches is applied
handleGroundedInput(st, c, m) ==
  LET matching == SelectSeq(Movements,
                    LAMBDA mv : keyBindingMatches(c[mv], m.activeKeyBindings,
                                                  m.currentModifiers))
  IN IF matching = <<>> THEN st
     ELSE LET moved == applyMovement(matching[1],
                         [st EXCEPT !.cd.isMoving = TRUE], c, m)
          IN [moved EXCEPT !.cd = updateMovementAnimation(moved.cd, c, m)]

IsGroundedType(c) == c.locomotionType \in {"Grounded Avatar", "Input Control 1"}

\* handleKeyDown
handleKeyDown(st, c, m) ==
  IF c.active /\ IsGroundedType(c) THEN handleGroundedInput(st, c, m) ELSE st

\* stopMovementAnimation
stopMovementAnimation(key, cd, c, m) ==
  LET stillMoving ==
        \E i \in 1..4 : /\ c[Movements[i]] # NoBinding
                        /\ c[Movements[i]].key # key
                        /\ c[Movements[i]].key \in m.activeKeys
  IN IF stillMoving THEN cd
     ELSE playIdleAnimation([cd EXCEPT !.isMoving = FALSE], c)

\* handleKeyUp
handleKeyUp(key, st, c, m) ==
  IF c.active /\ IsGroundedType(c)
  THEN [st EXCEPT !.cd = stopMovementAnimation(key, st.cd, c, m)]
  ELSE st

\* hasActiveMovementKeys
hasActiveMovementKeys(c, m) ==
  \E i \in 1..4 : c[Movements[i]] # NoBinding /\ c[Movements[i]].key \in m.activeKeys

\* (variant: the factor is applied twice in one tick)
DampTwice(v) == TruncDiv(TruncDiv(v * DampingPercent, 100) * DampingPercent, 100)

\* currentVel.x * dampingFactor
Damp(v) == TruncDiv(v * DampingPercent, 100)

\* (variant: the orientation of the body is left as the engine set it)
keepUprightSkipped(obj) == obj

\* object.rotationQuaternion = BABYLON.Quaternion.Identity()
keepUpright(obj) == [obj EXCEPT !.upright = TRUE]

\* updatePhysicsForObject
updatePhysicsForObject(st, c, m) ==
  LET obj == st.obj
      cd  == st.cd
  IN
  IF c.hasPhysics
  THEN LET damped == IF ~hasActiveMovementKeys(c, m)
                     THEN [obj EXCEPT !.velocity.x = Damp(obj.velocity.x),
                                      !.velocity.z = Damp(obj.velocity.z)]
                     ELSE obj
           landed == cd.jumpState.isJumping
                       /\ Abs(damped.velocity.y) < RestSpeed
                       /\ damped.position.y <= cd.jumpState.groundY + LandBand
       IN [st EXCEPT !.obj = keepUpright(damped),
                     !.cd.jumpState.isJumping = cd.jumpState.isJumping /\ ~landed]
  ELSE IF cd.jumpState.isJumping
       THEN LET v == cd.jumpState.jumpVelocity - GravityPerTick
                y == obj.position.y + TickMs * v
            IN IF y <= cd.jumpState.groundY
               THEN [st EXCEPT !.obj.position.y = cd.jumpState.groundY,
                               !.cd.jumpState.isJumping = FALSE,
                               !.cd.jumpState.jumpVelocity = 0]
               ELSE [st EXCEPT !.obj.position.y = y,
                               !.cd.jumpState.jumpVelocity = v]
       ELSE st

RECURSIVE HeldKeyPasses(_, _, _, _)
\* the tick calls handleGroundedInput once for every held key
HeldKeyPasses(n, st, c, m) ==
  IF n = 0 THEN st
  ELSE HeldKeyPasses(n - 1,
         IF c.locomotionType = "Grounded Avatar" THEN handleGroundedInput(st, c, m)
         ELSE st, c, m)

\* the setInterval callback of startInputUpdateLoop
inputTick(st, c, m) ==
  HeldKeyPasses(Cardinality(m.activeKeys), updatePhysicsForObject(st, c, m), c, m)

InBounds(obj) ==
  /\ Abs(obj.position.x) <= MaxPos
  /\ Abs(obj.position.z) <= MaxPos
  /\ obj.position.y <= MaxY
  /\ Abs(obj.rotationY) <= MaxHeading
  /\ Abs(obj.controlRotation) <= MaxHeading

\* the entity as the handlers see it; log and impulses collect what one
\* handler run applies
Entity == [cd |-> controlData, obj |-> object, log |-> <<>>, impulses |-> <<>>]

Mgr(keys, bindings, mods) ==
  [activeKeys |-> keys, activeKeyBindings |-> bindings, currentModifiers |-> mods]

\* modifier flags of a keyboard event, given the keys physically down after it
EventModifiers(down) ==
  [ctrl |-> "ControlLeft" \in down, shift |-> "ShiftLeft" \in down,
   alt |-> "AltLeft" \in down]

Commit(st, name) ==
  /\ InBounds(st.obj)
  /\ controlData' = st.cd
  /\ object' = st.obj
  /\ inputGhost' = [applied |-> st.log,
                    airJump |-> inputGhost.airJump
                                  \/ (\E i \in 1..Len(st.impulses) : st.impulses[i])]
  /\ event' = name
  /\ UNCHANGED <<cfg, pc, stepLog, camera, shake, cameraData, lastRadius, world, ghost,
                 ic, keyboard, loadVars>>

\* window keydown listener
KeyDown ==
  /\ pc = 0
  /\ \E key \in keyboard :
       LET mods == EventModifiers(activeKeys \cup {key})
           keyBinding == createKeyBindingString(mods.ctrl, mods.shift, mods.alt, key)
       IN /\ currentModifiers' = mods
          /\ IF key \notin activeKeys
             THEN /\ activeKeys' = activeKeys \cup {key}
                  /\ activeKeyBindings' = activeKeyBindings \cup {keyBinding}
                  /\ Commit(handleKeyDown(Entity, ic,
                              Mgr(activeKeys', activeKeyBindings', mods)), "keyDown")
             ELSE /\ UNCHANGED <<activeKeys, activeKeyBindings>>
                  /\ Commit(Entity, "keyDown")
  /\ CountEvent("keys")

\* (variant: only the chord without modifiers is removed)
UsesKeyAlone(binding, key) == binding = <<key>>

\* binding.endsWith('+' + key) || binding === key
UsesKey(binding, key) == binding[Len(binding)] = key

\* window keyup listener
KeyUp ==
  /\ pc = 0
  /\ \E key \in activeKeys :
       LET mods == EventModifiers(activeKeys \ {key}) IN
       /\ currentModifiers' = mods
       /\ activeKeys' = activeKeys \ {key}
       /\ activeKeyBindings' = {b \in activeKeyBindings : ~UsesKey(b, key)}
       /\ Commit(handleKeyUp(key, Entity, ic,
                   Mgr(activeKeys', activeKeyBindings', mods)), "keyUp")
  /\ CountEvent("keys")

\* the 16 ms interval of startInputUpdateLoop; timers run between frames
InputTick ==
  /\ pc = 0
  /\ Commit(inputTick(Entity, ic, Manager), "inputTick")
  /\ UNCHANGED <<activeKeys, activeKeyBindings, currentModifiers, events>>

\* one step of the physics world on the controlled body: the velocity moves
\* the body, gravity acts on it, the surface it stands on stops it
physicsStep(obj) ==
  LET moved == [obj EXCEPT !.position.x = obj.position.x + TickMs * obj.velocity.x,
                           !.position.z = obj.position.z + TickMs * obj.velocity.z]
  IN IF obj.position.y <= obj.floorY /\ obj.velocity.y <= 0
     THEN [moved EXCEPT !.position.y = obj.floorY, !.velocity.y = 0]
     ELSE LET v == obj.velocity.y - GravityPerTick
              y == obj.position.y + TickMs * v
          IN IF y <= obj.floorY
             THEN [moved EXCEPT !.position.y = obj.floorY, !.velocity.y = 0]
             ELSE [moved EXCEPT !.position.y = y, !.velocity.y = v]

PhysicsStep ==
  /\ pc = 0
  /\ ic.hasPhysics
  /\ Commit([Entity EXCEPT !.obj = physicsStep(object)], "physicsStep")
  /\ UNCHANGED <<activeKeys, activeKeyBindings, currentModifiers, events>>

\* height of a surface the body can come down on, higher above the place
\* where the scene put the entity than the landing test allows for
PlatformY == 2 * LandBand

\* the body, in the air at the height of a platform, gets over it: from now
\* on the platform is what stops its fall
OverPlatform ==
  /\ pc = 0
  /\ ic.hasPhysics
  /\ object.floorY < PlatformY
  /\ object.position.y >= PlatformY
  /\ Commit([Entity EXCEPT !.obj.floorY = PlatformY], "overPlatform")
  /\ UNCHANGED <<activeKeys, activeKeyBindings, currentModifiers, events>>

\* a contact turns the body between two ticks: the engine writes the
\* orientation of the body into rotationQuaternion
BodyTumbles ==
  /\ pc = 0
  /\ ic.hasPhysics
  /\ object.upright
  /\ Commit([Entity EXCEPT !.obj.upright = FALSE], "bodyTumbles")
  /\ UNCHANGED <<activeKeys, activeKeyBindings, currentModifiers, events>>

Binding(key) == [ctrl |-> FALSE, shift |-> FALSE, alt |-> FALSE, key |-> key]

\* the default bindings of loadGlobalInputControls with animation ids
InputControl(isActive, type, physics, height) ==
  [active |-> isActive, locomotionType |-> type, hasPhysics |-> physics,
   jumpHeight |-> height,
   forward |-> Binding("KeyW"), backward |-> Binding("KeyS"),
   turnLeft |-> Binding("KeyA"), turnRight |-> Binding("KeyD"),
   jump |-> Binding("Space"),
   animationId |-> [forward |-> "walk", backward |-> "walk_backward",
                    turnLeft |-> "", turnRight |-> "", jump |-> "jump"],
   speedBoostAnimationId |-> [forward |-> "run", backward |-> "run_backward",
                              turnLeft |-> "", turnRight |-> "", jump |-> ""],
   idleAnimationId |-> "idle",
   speedBoostEnabled |-> FALSE,
   speedBoostKey |-> [ctrl |-> FALSE, shift |-> FALSE, alt |-> FALSE, key |-> ""],
   speedBoostMultiplier |-> 2]

\* scanForControlledObjects: the state of a controlled node after the scan
InputInit(c, kb) ==
  /\ ic = c
  /\ keyboard = kb
  /\ activeKeys = {}
  /\ activeKeyBindings = {}
  /\ currentModifiers = [ctrl |-> FALSE, shift |-> FALSE, alt |-> FALSE]
  /\ object = [position |-> [x |-> 0, y |-> 0, z |-> 0], rotationY |-> 0,
               controlRotation |-> 0, controlRotationSet |-> c.hasPhysics,
               childRotationY |-> 0, upright |-> TRUE,
               velocity |-> [x |-> 0, y |-> 0, z |-> 0], floorY |-> 0]
  /\ controlData = [isMoving |-> FALSE,
                    animations |-> {"idle", "walk", "run", "jump", "walk_backward",
                                    "run_backward"},
                    currentAnimation |-> c.idleAnimationId,
                    jumpState |-> [isJumping |-> FALSE, jumpVelocity |-> 0,
                                   groundY |-> 0]]
  /\ inputGhost = [applied |-> <<>>, airJump |-> FALSE]

(* ----------------------- scene graph instantiation --------------------- *)
\* Node ids are lists of parts; a child-mesh id is the id of its model, the
\* tag, and a token.  Positions and rotations are integers on one axis,
\* scalings are in quarters (One is 4).
MESH_TAG == "::mesh::"
Zero == 0
One == 4

\* id.includes('::mesh::')
IncludesMeshTag(id) == \E i \in 1..Len(id) : id[i] = MESH_TAG

\* id.lastIndexOf(MESH_TAG), 0 when absent
RECURSIVE LastIndexOfTag(_, _)
LastIndexOfTag(id, i) ==
  IF i = 0 THEN 0 ELSE IF id[i] = MESH_TAG THEN i ELSE LastIndexOfTag(id, i - 1)

\* getChildTokenFromId: what follows the last tag; null and '' are both ""
getChildTokenFromId(id) ==
  LET i == LastIndexOfTag(id, Len(id))
  IN IF i = 0 \/ i = Len(id) THEN "" ELSE id[i + 1]

\* /^[0-9]+$/.test(token) and parseInt(token, 10)
Numerals == <<"1", "2", "3", "4", "5", "6", "7", "8", "9">>
IsNumeric(token) == \E i \in 1..Len(Numerals) : Numerals[i] = token
ParseInt(token) == CHOOSE i \in 1..Len(Numerals) : Numerals[i] = token

\* (name || 'Mesh').toLowerCase()
LowerName(name) ==
  CASE name = ""     -> "mesh"
    [] name = "Cube" -> "cube"
    [] name = "Lid"  -> "lid"
    [] OTHER         -> name

\* node.transform of the scene description
Transform(p, r, s) ==
  [present |-> TRUE, position |-> p, hasRotation |-> TRUE, rotation |-> r,
   hasScaling |-> TRUE, scaling |-> s]
PositionOnly(p) ==
  [present |-> TRUE, position |-> p, hasRotation |-> FALSE, rotation |-> Zero,
   hasScaling |-> FALSE, scaling |-> One]
NoTransform ==
  [present |-> FALSE, position |-> 0, hasRotation |-> FALSE, rotation |-> Zero,
   hasScaling |-> FALSE, scaling |-> One]

\* node.transform.rotation ? ... : Vector3.Zero(), and the same for scaling
RotationOf(t) == IF t.hasRotation THEN t.rotation ELSE Zero
ScalingOf(t) == IF t.hasScaling THEN t.scaling ELSE One

NoParent == <<>>

\* a Node of the scene description; faulty: building the live object throws
GraphNode(id, kind, name, parentId, transform, src, primitiveType, faulty) ==
  [id |-> id, kind |-> kind, name |-> name, parentId |-> parentId,
   transform |-> transform, src |-> src, primitiveType |-> primitiveType,
   faulty |-> faulty, visible |-> TRUE, enabled |-> TRUE]

\* the same Node with the flags visible and enabled as the editor saved them
WithFlags(node, visible, enabled) ==
  [node EXCEPT !.visible = visible, !.enabled = enabled]

\* mesh.visibility = (visible && enabled) ? 1 : 0
VisibilityOf(shown) == IF shown THEN 1 ELSE 0

\* what LoadAssetContainerAsync returns for a file: whether it loads, and the
\* meshes of the container in file order
Assets(src) ==
  IF src = "crate.glb"
  THEN [ok |-> TRUE,
        meshes |-> << [name |-> "__root__", isMesh |-> TRUE],
                      [name |-> "Cube", isMesh |-> TRUE],
                      [name |-> "Cube", isMesh |-> TRUE],
                      [name |-> "Lid", isMesh |-> TRUE] >>]
  ELSE [ok |-> FALSE, meshes |-> <<>>]

\* a live object of the scene
LiveObject(id, name, type, tr, quaternion, inScene, loadedBy) ==
  [id |-> id, name |-> name, type |-> type, inScene |-> inScene,
   disposed |-> FALSE, stableId |-> "undefined", parent |-> 0,
   position |-> tr.position, rotation |-> RotationOf(tr),
   scaling |-> ScalingOf(tr), hasQuaternion |-> quaternion,
   loadedBy |-> loadedBy, boundBy |-> <<>>, visibility |-> 1]

\* index in `seq` of the first element satisfying Test, 0 when there is none
FirstIndex(seq, Test(_)) ==
  IF \E i \in 1..Len(seq) : Test(seq[i])
  THEN CHOOSE i \in 1..Len(seq) :
         /\ Test(seq[i])
         /\ \A j \in 1..(i - 1) : ~Test(seq[j])
  ELSE 0

\* scene.getNodeById
getNodeById(objs, id) ==
  FirstIndex(objs, LAMBDA o : o.inScene /\ o.id = id)

\* nameCounts: how many earlier elements carry the same lowercased name
OccurrenceIndex(seq, i) ==
  Cardinality({j \in 1..(i - 1) : LowerName(seq[j].name) = LowerName(seq[i].name)})

\* the children of a model gathered from the scene description
childNodesOf(g, node) ==
  SelectSeq(g, LAMBDA n : n.parentId = node.id /\ n.kind = "mesh")

\* sgIndex.get(key): position among childNodes of the entry of the key, 0 if none
sgIndexGet(childNodes, nm, idx) ==
  IF \E i \in 1..Len(childNodes) :
       LowerName(childNodes[i].name) = nm /\ OccurrenceIndex(childNodes, i) = idx
  THEN CHOOSE i \in 1..Len(childNodes) :
         LowerName(childNodes[i].name) = nm /\ OccurrenceIndex(childNodes, i) = idx
  ELSE 0

\* loadModelFromAssets, from the loaded container on
loadModelFromAssets(objs, node, g) ==
  LET asset == Assets(node.src)
      parentKey == Len(objs) + 1
      parentNode == LiveObject(node.id, "", "TransformNode", node.transform,
                               FALSE, TRUE, NoParent)
      childNodes == childNodesOf(g, node)
      actual == SelectSeq(asset.meshes,
                          LAMBDA m : m.isMesh /\ m.name # "__root__")
      \* position among the actual meshes of the i-th mesh of the container
      ActualPos(i) ==
        Cardinality({j \in 1..i : asset.meshes[j].isMesh
                                    /\ asset.meshes[j].name # "__root__"})
      Loaded(i) ==
        LET m == asset.meshes[i]
            base == [LiveObject(<<m.name>>, m.name, "Mesh", PositionOnly(0),
                                TRUE, FALSE, node.id)
                       EXCEPT !.parent = parentKey]
        IN IF m.isMesh /\ m.name # "__root__"
           THEN LET entry == sgIndexGet(childNodes, LowerName(m.name),
                                        OccurrenceIndex(actual, ActualPos(i)))
                IN IF entry # 0
                   THEN [base EXCEPT
                           !.stableId = getChildTokenFromId(childNodes[entry].id),
                           !.visibility =
                              VisibilityOf(/\ childNodes[entry].visible
                                           /\ childNodes[entry].enabled
                                           /\ node.visible /\ node.enabled),
                           !.inScene = TRUE]
                   ELSE [base EXCEPT !.disposed = TRUE]
           ELSE base
  IN IF ~asset.ok \/ Len(asset.meshes) = 0
     THEN objs
     ELSE objs \o <<parentNode>> \o [i \in 1..Len(asset.meshes) |-> Loaded(i)]

\* scene.meshes.find by stableId, then the legacy lookup by uniqueId
findChildMesh(objs, token) ==
  LET byStableId == FirstIndex(objs, LAMBDA o : o.type = "Mesh" /\ o.inScene
                                                  /\ o.stableId = token)
  IN IF byStableId = 0 /\ IsNumeric(token)
     THEN IF ParseInt(token) <= Len(objs)
             /\ objs[ParseInt(token)].type = "Mesh" /\ objs[ParseInt(token)].inScene
          THEN ParseInt(token) ELSE 0
     ELSE byStableId

\* instantiateNode: the objects of the scene after it, and how it ended:
\* "rejected" is an exception that leaves the function
instantiateNode(objs, node, g) ==
  IF ~node.transform.present
  THEN [objects |-> objs, outcome |-> "rejected"]
  ELSE IF node.faulty
  THEN [objects |-> objs, outcome |-> "logged"]
  ELSE
    CASE node.kind = "mesh" /\ IncludesMeshTag(node.id) /\ node.parentId # NoParent ->
           LET token == getChildTokenFromId(node.id)
               mesh == IF token # "" THEN findChildMesh(objs, token) ELSE 0
           IN IF mesh # 0
              THEN [objects |-> [objs EXCEPT
                                   ![mesh].position = node.transform.position,
                                   ![mesh].rotation = RotationOf(node.transform),
                                   ![mesh].scaling = ScalingOf(node.transform),
                                   ![mesh].boundBy = Append(@, node.id),
                                   ![mesh].visibility =
                                      VisibilityOf(node.visible /\ node.enabled)],
                    outcome |-> "done"]
              ELSE [objects |-> objs, outcome |-> "notFound"]
      [] node.kind = "mesh" /\ ~(IncludesMeshTag(node.id) /\ node.parentId # NoParent) ->
           IF node.primitiveType # ""
           THEN [objects |-> Append(objs,
                              [LiveObject(node.id, "", "Mesh", node.transform,
                                          FALSE, TRUE, NoParent)
                                 EXCEPT !.visibility =
                                          VisibilityOf(node.visible /\ node.enabled)]),
                 outcome |-> "done"]
           ELSE [objects |-> objs, outcome |-> "done"]
      [] node.kind = "model" ->
           [objects |-> IF node.src # "" THEN loadModelFromAssets(objs, node, g)
                        ELSE objs,
            outcome |-> "done"]
      [] node.kind = "light" ->
           [objects |-> Append(objs, LiveObject(node.id, "", "Light",
                                                node.transform, FALSE, TRUE, NoParent)),
            outcome |-> "done"]
      [] node.kind = "audio" ->
           [objects |-> Append(objs, LiveObject(node.id, "", "TransformNode",
                                                node.transform, FALSE, TRUE, NoParent)),
            outcome |-> "done"]
      [] OTHER -> [objects |-> objs, outcome |-> "done"]

\* world transform of a live object: its local transform under its parents'
RECURSIVE WorldOf(_, _)
WorldOf(objs, k) ==
  IF objs[k].parent = 0
  THEN [position |-> objs[k].position, rotation |-> objs[k].rotation,
        scaling |-> objs[k].scaling]
  ELSE LET p == WorldOf(objs, objs[k].parent)
       IN [position |-> p.position + objs[k].position,
           rotation |-> p.rotation + objs[k].rotation,
           scaling |-> (p.scaling * objs[k].scaling) \div One]

\* childObj.setParent(parentObj): the world transform is kept, so the local
\* transform is rewritten relative to the parent
setParent(objs, child, parent) ==
  LET w == WorldOf(objs, child)
      p == WorldOf(objs, parent)
  IN [objs EXCEPT ![child].parent = parent,
                  ![child].position = w.position - p.position,
                  ![child].rotation = w.rotation - p.rotation,
                  ![child].scaling = (w.scaling * One) \div p.scaling]

\* (variant: the authored transform is not applied again after attaching)
attachKeepingWorld(objs, child, parent, node) ==
  IF objs[child].type \in {"Mesh", "TransformNode"}
  THEN setParent(objs, child, parent)
  ELSE [objs EXCEPT ![child].parent = parent]

\* third pass, one node whose objects were found: attach, then apply the
\* authored local transform
attachToParent(objs, child, parent, node) ==
  LET attached == IF objs[child].type \in {"Mesh", "TransformNode"}
                  THEN setParent(objs, child, parent)
                  ELSE [objs EXCEPT ![child].parent = parent]
  IN IF node.transform.present
     THEN [attached EXCEPT ![child].position = node.transform.position,
                           ![child].rotation = RotationOf(node.transform),
                           ![child].scaling = ScalingOf(node.transform)]
     ELSE attached

\* nodes of the third pass
nodesWithParents(g) ==
  SelectSeq(g, LAMBDA n : n.parentId # NoParent /\ ~IncludesMeshTag(n.id))

\* (variant: one pass, every node is instantiated where it stands)
IsDeferredNever(node) == FALSE

\* nodes deferred by the first pass
IsDeferred(node) ==
  node.kind = "mesh" /\ IncludesMeshTag(node.id) /\ node.parentId # NoParent

GraphUnchanged == UNCHANGED <<camVars, inputVars, physVars, logicVars, restVars>>

\* the pass that follows the second one, and the one that follows the first
AfterSecond(g) == IF Len(nodesWithParents(g)) > 0 THEN "third" ELSE "done"
AfterFirst(g, deferred) == IF Len(deferred) > 0 THEN "second" ELSE AfterSecond(g)

\* loader after instantiateNode returned (or threw) for `node` in a pass over
\* `list`, the pass after this one being `after`
Visited(list, node, outcome, after) ==
  IF outcome = "rejected"
  THEN [loader EXCEPT !.phase = "aborted"]
  ELSE [loader EXCEPT
          !.logged = IF outcome = "logged" THEN @ \cup {node.id} ELSE @,
          !.visited = @ \cup {node.id},
          !.i = IF loader.i = Len(list) THEN 1 ELSE loader.i + 1,
          !.phase = IF loader.i = Len(list) THEN after ELSE loader.phase]

\* first pass of instantiateGraph, one node
FirstPass ==
  /\ loader.phase = "first"
  /\ LET node == graph[loader.i]
     IN IF IsDeferred(node)
        THEN LET deferred == Append(loader.childMeshNodes, node)
             IN /\ objects' = objects
                /\ loader' = [loader EXCEPT
                                !.childMeshNodes = deferred,
                                !.i = IF loader.i = Len(graph) THEN 1 ELSE loader.i + 1,
                                !.phase = IF loader.i = Len(graph)
                                          THEN AfterFirst(graph, deferred)
                                          ELSE "first"]
        ELSE LET r == instantiateNode(objects, node, graph)
             IN /\ objects' = r.objects
                /\ loader' = Visited(graph, node, r.outcome,
                                     AfterFirst(graph, loader.childMeshNodes))
  /\ UNCHANGED graph
  /\ GraphUnchanged

\* second pass, one child-mesh node
SecondPass ==
  /\ loader.phase = "second"
  /\ LET node == loader.childMeshNodes[loader.i]
         r == instantiateNode(objects, node, graph)
     IN /\ objects' = r.objects
        /\ loader' = Visited(loader.childMeshNodes, node, r.outcome, AfterSecond(graph))
  /\ UNCHANGED graph
  /\ GraphUnchanged

\* third pass, one node with a parentId
ThirdPass ==
  /\ loader.phase = "third"
  /\ LET list == nodesWithParents(graph)
         node == list[loader.i]
         childObj == getNodeById(objects, node.id)
         parentObj == getNodeById(objects, node.parentId)
     IN /\ objects' = IF childObj # 0 /\ parentObj # 0
                      THEN attachToParent(objects, childObj, parentObj, node)
                      ELSE objects
        /\ loader' = [loader EXCEPT
                        !.unresolved = IF childObj # 0 /\ parentObj # 0
                                       THEN @ ELSE @ \cup {node.id},
                        !.i = IF loader.i = Len(list) THEN 1 ELSE loader.i + 1,
                        !.phase = IF loader.i = Len(list) THEN "done" ELSE "third"]
  /\ UNCHANGED graph
  /\ GraphUnchanged

\* the startup after `await instantiateGraph`: scene settings, managers
ContinueStartup ==
  /\ loader.phase = "done"
  /\ loader' = [loader EXCEPT !.phase = "started"]
  /\ UNCHANGED <<graph, objects>>
  /\ GraphUnchanged

\* the loader before a scene description is fetched
LoaderInit(phase) ==
  [phase |-> phase, i |-> 1, childMeshNodes |-> <<>>, logged |-> {},
   visited |-> {}, unresolved |-> {}]

NoGraph ==
  /\ graph = <<>>
  /\ objects = <<>>
  /\ loader = LoaderInit("none")

(* ----------------------- physics binding -------------------------------- *)
\* Masses are whole numbers; restitution and friction are in tenths.
DefaultMass == 1
DefaultRestitution == 3
DefaultFriction == 5
\* physicsBody.setCollisionFlags(4)
TriggerFlag == 4

\* node.physics of the scene description
PhysicsProps(type, impostor, mass, restitution, isTrigger, isCollider) ==
  [type |-> type, impostor |-> impostor, mass |-> mass,
   restitution |-> restitution, friction |-> 0, isTrigger |-> isTrigger,
   isCollider |-> isCollider]

\* impostorTypeMap[physicsProps.impostor] || BoxImpostor
ImpostorTypes == {"box", "sphere", "capsule", "cylinder", "mesh", "convexHull"}
impostorTypeOf(props) ==
  IF props.impostor \in ImpostorTypes THEN props.impostor ELSE "box"

\* (variant: every type but static takes the declared mass)
massOfNonStatic(props) ==
  IF props.type # "static"
  THEN (IF props.mass # 0 THEN props.mass ELSE DefaultMass)
  ELSE 0

\* mass by physics type: physicsProps.mass || 1 for dynamic, 0 otherwise
massOf(props) ==
  IF props.type = "dynamic"
  THEN (IF props.mass # 0 THEN props.mass ELSE DefaultMass)
  ELSE 0

\* isImportedMesh
isImportedMesh(obj) ==
  obj.gltf \/ ~obj.namedPrimitive \/ obj.hasParent

\* (variant: only the legacy isCollider flag selects the raw collider)
usesRawColliderLegacy(props, obj) ==
  props.isCollider /\ isImportedMesh(obj)

\* impostor === 'meshCollider' || (isCollider && isImportedMesh(targetMesh))
usesRawCollider(props, obj) ==
  props.impostor = "meshCollider" \/ (props.isCollider /\ isImportedMesh(obj))

NoImpostor ==
  [attached |-> FALSE, type |-> "", mass |-> 0, restitution |-> 0,
   friction |-> 0, collisionFlags |-> 0]

\* physicsImpostor.dispose() takes the body of the impostor out of the
\* physics world; a body stored in _ammoBody is left in it
disposeImpostor(obj) ==
  IF obj.physicsImpostor.attached
  THEN [obj EXCEPT !.physicsImpostor = NoImpostor, !.worldBodies = @ - 1]
  ELSE obj

\* createRawAmmoCollider: a zero-mass rigid body from the geometry, when the
\* physics world and the geometry are there
createRawAmmoCollider(obj, ammoWorld) ==
  IF ~ammoWorld THEN obj
  ELSE IF ~obj.isMesh THEN obj
  ELSE IF ~obj.hasGeometry THEN obj
  ELSE [obj EXCEPT !.ammoBody = [present |-> TRUE, mass |-> 0],
                   !.isRawAmmoCollider = TRUE,
                   !.worldBodies = @ + 1]

\* applyPhysicsToObject on a resolved target
applyPhysicsToObject(obj, props, ammoWorld) ==
  LET cleared == disposeImpostor(obj)
  IN IF usesRawCollider(props, cleared)
     THEN createRawAmmoCollider(cleared, ammoWorld)
     ELSE [cleared EXCEPT
             !.physicsImpostor =
               [attached |-> TRUE, type |-> impostorTypeOf(props),
                mass |-> massOf(props),
                restitution |-> IF props.restitution # 0 THEN props.restitution
                                ELSE DefaultRestitution,
                friction |-> IF props.friction # 0 THEN props.friction
                             ELSE DefaultFriction,
                collisionFlags |-> IF props.isTrigger THEN TriggerFlag ELSE 0],
             !.worldBodies = @ + 1]

\* a live object before physics is bound to it
\* (runtimePrimitive: built by MeshBuilder from a primitive node, named by
\* the id of the node; worldBodies: its rigid bodies in the physics world)
Target(isMesh, gltf, namedPrimitive, hasParent, hasGeometry, runtimePrimitive) ==
  [isMesh |-> isMesh, gltf |-> gltf, namedPrimitive |-> namedPrimitive,
   hasParent |-> hasParent, hasGeometry |-> hasGeometry,
   runtimePrimitive |-> runtimePrimitive,
   physicsImpostor |-> NoImpostor,
   ammoBody |-> [present |-> FALSE, mass |-> 0], isRawAmmoCollider |-> FALSE,
   worldBodies |-> 0]

NoProps == PhysicsProps("", "", 0, 0, FALSE, FALSE)

NoPhysics ==
  /\ target = Target(FALSE, FALSE, FALSE, FALSE, FALSE, FALSE)
  /\ applied = [count |-> 0, props |-> NoProps, ammoWorld |-> FALSE,
                repeated |-> FALSE]

\* the descriptors an editor can export
PhysicsDescriptors ==
  { PhysicsProps(t, i, m, r, trig, coll) :
      t \in {"static", "dynamic", "kinematic"},
      i \in {"box", "sphere", "meshCollider", ""},
      m \in {0, 2, 5}, r \in {0, 8}, trig \in BOOLEAN, coll \in BOOLEAN }

\* node.physics.enabled: physics is bound to the live object of a node
ApplyPhysics ==
  /\ applied.count < MaxBindings
  /\ \E props \in PhysicsDescriptors :
       /\ target' = applyPhysicsToObject(target, props, applied.ammoWorld)
       /\ applied' = [applied EXCEPT !.count = @ + 1, !.props = props,
                                     !.repeated = (applied.count > 0
                                                     /\ props = applied.props)]
  /\ UNCHANGED <<camVars, inputVars, graphVars, logicVars, restVars>>

(* ----------------------- custom logic host ----------------------------- *)
\* A script of the manifest, by what running it does:
\*   "plain"         class CustomLogic with attach and update
\*   "noUpdate"      class CustomLogic with attach only
\*   "asyncResolves" attach is an async function whose promise is fulfilled
\*   "asyncRejects"  attach is an async function whose promise is rejected
\*   "updateThrows"  attach returns, update throws
\*   "syntaxError"   the text does not run as a function body
\*   "noClass"       the text runs and defines no CustomLogic
\*   "noAttach"      CustomLogic has no attach method
\*   "attachThrows"  attach throws
ScriptKinds ==
  {"plain", "noUpdate", "asyncResolves", "asyncRejects", "updateThrows",
   "syntaxError", "noClass", "noAttach", "attachThrows"}

Logic(objectId, kind, isEnabled) ==
  [objectId |-> objectId, kind |-> kind, enabled |-> isEnabled]

\* objects of the scene the manifest can name
SceneObjectIds == {"crate"}

\* objectId === '__scene__' or scene.getNodeById(objectId)
ObjectFound(objectId) == objectId = "__scene__" \/ objectId \in SceneObjectIds

\* executeScript: the class, or null after a logged error
executeScript(kind) ==
  IF kind \in {"syntaxError", "noClass"} THEN "null" ELSE "CustomLogic"

\* typeof logicInstance.attach === 'function', typeof instance.update === 'function'
HasAttach(kind) == kind # "noAttach"
HasUpdate(kind) == kind \notin {"noUpdate", "syntaxError", "noClass"}

\* what logicInstance.attach(babylonObject, context) comes to at the call
attachResult(kind) ==
  CASE kind = "attachThrows" -> "threw"
    [] kind \in {"asyncResolves", "asyncRejects"} -> "pending"
    [] OTHER -> "returned"

NoInstance ==
  [constructed |-> FALSE, attach |-> "none", logged |-> FALSE,
   registered |-> FALSE, updates |-> 0, updatedIn |-> {}, disposed |-> FALSE]

\* Object.entries(objectLogics): the objects in the order they first appear,
\* the scripts of one object in their order
FirstAppearance(m, i) ==
  CHOOSE j \in 1..i : /\ m[j].objectId = m[i].objectId
                      /\ \A k \in 1..(j - 1) : m[k].objectId # m[i].objectId

Before(m, i, j) ==
  \/ FirstAppearance(m, i) < FirstAppearance(m, j)
  \/ FirstAppearance(m, i) = FirstAppearance(m, j) /\ i < j

ProcessingOrder(m) ==
  [n \in 1..Len(m) |->
     CHOOSE i \in 1..Len(m) : Cardinality({j \in 1..Len(m) : Before(m, j, i)}) = n - 1]

\* (variant: a script that fails ends the loading)
abortAfterFailure(n, last) == last + 1

\* continue: after a script is skipped the loop goes on with the next one
continueAfterFailure(n, last) == n + 1

\* loadCustomLogics from the n-th script in processing order on
RECURSIVE loadFrom(_, _, _, _)
loadFrom(m, order, n, acc) ==
  IF n > Len(order) THEN acc
  ELSE
    LET i == order[n]
        logic == m[i]
        skip == continueAfterFailure(n, Len(order))
    IN IF ~ObjectFound(logic.objectId) \/ ~logic.enabled
       THEN loadFrom(m, order, n + 1, acc)
       ELSE IF executeScript(logic.kind) = "null"
       THEN loadFrom(m, order, skip,
                     [acc EXCEPT !.inst[i].logged = TRUE])
       ELSE IF ~HasAttach(logic.kind)
       THEN loadFrom(m, order, skip,
                     [acc EXCEPT !.inst[i].constructed = TRUE,
                                 !.inst[i].logged = TRUE])
       ELSE IF attachResult(logic.kind) = "threw"
       THEN loadFrom(m, order, skip,
                     [acc EXCEPT !.inst[i].constructed = TRUE,
                                 !.inst[i].attach = "threw",
                                 !.inst[i].logged = TRUE])
       ELSE loadFrom(m, order, n + 1,
                     [acc EXCEPT !.inst[i].constructed = TRUE,
                                 !.inst[i].attach = attachResult(logic.kind),
                                 !.inst[i].registered = TRUE,
                                 !.active = Append(@, i)])

loadCustomLogics(m) ==
  loadFrom(m, ProcessingOrder(m), 1,
           [inst |-> [i \in 1..Len(m) |-> NoInstance], active |-> <<>>])

\* customLogicManager = new CustomLogicManager(scene); loadCustomLogics(data).
\* The loop of loadCustomLogics awaits nothing, so no frame runs inside it.
LoadLogics ==
  /\ ~host.created
  /\ LET r == loadCustomLogics(manifest)
     IN /\ instances' = r.inst
        /\ host' = [host EXCEPT !.created = TRUE, !.activeLogics = r.active]
  /\ UNCHANGED manifest
  /\ UNCHANGED <<camVars, inputVars, graphVars, physVars, restVars>>

\* (variant: update is called outside a try block)
updateOutcomeUncaught(kind) == IF kind = "updateThrows" THEN "threw" ELSE "returned"

\* try { logicData.instance.update(deltaTime) } catch (error) { console.error }
updateOutcome(kind) == IF kind = "updateThrows" THEN "caught" ELSE "returned"

\* the loop over activeLogics makes the call of the n-th active instance: the
\* instance passes the test of the loop body and no earlier call has left
\* the loop with an exception
UpdateCalled(n, active, m) ==
  /\ m[active[n]].enabled /\ HasUpdate(m[active[n]].kind)
  /\ \A k \in 1..(n - 1) :
        ~(/\ m[active[k]].enabled /\ HasUpdate(m[active[k]].kind)
          /\ updateOutcome(m[active[k]].kind) = "threw")

\* the errors one call of CustomLogicManager.update logs
updateErrors(active, m) ==
  Cardinality({n \in 1..Len(active) :
                 UpdateCalled(n, active, m) /\ updateOutcome(m[active[n]].kind) = "caught"})

\* CustomLogicManager.update returns to the render loop callback
updateReturns(active, m) ==
  \A n \in 1..Len(active) :
    UpdateCalled(n, active, m) => updateOutcome(m[active[n]].kind) # "threw"

\* CustomLogicManager.update: every enabled active instance with an update
\* method is updated; an exception of update is caught
updateLogics(inst, active, m) ==
  [i \in 1..Len(inst) |->
     IF \E n \in 1..Len(active) : active[n] = i /\ UpdateCalled(n, active, m)
     THEN [inst[i] EXCEPT !.updates = @ + 1,
                          !.updatedIn = @ \cup {inst[i].attach}]
     ELSE inst[i]]

\* the render loop callback: scene.render(), then customLogicManager.update,
\* then updateSpatialUI
RenderLoopCallback ==
  /\ host.frames < MaxFrames
  /\ host' = [host EXCEPT !.frames = @ + 1,
                          !.liveFrames = IF host.created /\ ~host.disposed
                                         THEN @ + 1 ELSE @,
                          !.updateErrors =
                             IF host.created
                             THEN @ + updateErrors(host.activeLogics, manifest)
                             ELSE @,
                          !.reprojections =
                             IF host.created
                                  => updateReturns(host.activeLogics, manifest)
                             THEN @ + 1 ELSE @]
  /\ instances' = IF host.created
                  THEN updateLogics(instances, host.activeLogics, manifest)
                  ELSE instances
  /\ UNCHANGED manifest
  /\ UNCHANGED <<camVars, inputVars, graphVars, physVars, restVars>>

\* the promise returned by an async attach settles
AttachSettles ==
  /\ \E i \in 1..Len(instances) :
       /\ instances[i].attach = "pending"
       /\ instances' = [instances EXCEPT ![i].attach =
                          IF manifest[i].kind = "asyncRejects"
                          THEN "rejected" ELSE "resolved"]
  /\ UNCHANGED <<manifest, host>>
  /\ UNCHANGED <<camVars, inputVars, graphVars, physVars, restVars>>

\* beforeunload: customLogicManager.dispose()
DisposeLogics ==
  /\ host.created /\ ~host.disposed
  /\ instances' = [i \in 1..Len(instances) |->
                     IF \E n \in 1..Len(host.activeLogics) : host.activeLogics[n] = i
                     THEN [instances[i] EXCEPT !.disposed = TRUE]
                     ELSE instances[i]]
  /\ host' = [host EXCEPT !.disposed = TRUE, !.activeLogics = <<>>]
  /\ UNCHANGED manifest
  /\ UNCHANGED <<camVars, inputVars, graphVars, physVars, restVars>>

NoHost ==
  [created |-> FALSE, disposed |-> FALSE, activeLogics |-> <<>>, frames |-> 0,
   liveFrames |-> 0, updateErrors |-> 0, reprojections |-> 0]

NoLogic ==
  /\ manifest = <<>>
  /\ host = NoHost
  /\ instances = <<>>

(* ----------------------- UI element resolver --------------------------- *)
\* Time is counted in units of 50 ms from the call of getUIElement.
\* setInterval(..., 100)
PollPeriod == 2

\* the argument of getUIElement: nothing, { id }, a string id, something else
UIRefs == {"none", "object", "string", "other"}

\* tryFindElement: the spatial version first, then the screen version
tryFindElement(pg) ==
  IF pg.spatialElement THEN "spatial"
  ELSE IF pg.screenElement THEN "screen"
  ELSE "null"

NoPromise ==
  [state |-> "none", value |-> "none", resolveCalls |-> 0, rejected |-> FALSE,
   maxWaitMs |-> 0, timer |-> FALSE, nextPoll |-> 0, settledAt |-> 0,
   foundAtCall |-> FALSE, presentAtSettle |-> FALSE]

\* resolve(value) of the promise
resolve(pr, value, pg) ==
  [pr EXCEPT !.state = IF pr.state = "pending" THEN "resolved" ELSE @,
             !.value = IF pr.state = "pending" THEN value ELSE @,
             !.settledAt = IF pr.state = "pending" THEN pg.now ELSE @,
             !.presentAtSettle = IF pr.state = "pending"
                                 THEN tryFindElement(pg) # "null" ELSE @,
             !.resolveCalls = @ + 1]

\* the executor of the promise getUIElement returns
getUIElement(pg, uiElementRef, maxWaitMs) ==
  LET pending == [NoPromise EXCEPT !.state = "pending", !.maxWaitMs = maxWaitMs]
  IN IF uiElementRef = "none" THEN resolve(pending, "null", pg)
     ELSE IF ~pg.uiLoader THEN resolve(pending, "null", pg)
     ELSE IF uiElementRef = "other" THEN resolve(pending, "null", pg)
     ELSE IF tryFindElement(pg) # "null"
     THEN resolve([pending EXCEPT !.foundAtCall = TRUE], tryFindElement(pg), pg)
     ELSE [pending EXCEPT !.timer = TRUE, !.nextPoll = pg.now + PollPeriod]

\* (variant: the time limit is tested before the element is looked up)
pollTimeFirst(pg, pr) ==
  IF pg.now > pr.maxWaitMs
  THEN resolve([pr EXCEPT !.timer = FALSE], "null", pg)
  ELSE IF tryFindElement(pg) # "null"
  THEN resolve([pr EXCEPT !.timer = FALSE], tryFindElement(pg), pg)
  ELSE [pr EXCEPT !.nextPoll = @ + PollPeriod]

\* the callback of the polling interval
poll(pg, pr) ==
  IF tryFindElement(pg) # "null"
  THEN resolve([pr EXCEPT !.timer = FALSE], tryFindElement(pg), pg)
  ELSE IF pg.now > pr.maxWaitMs
  THEN resolve([pr EXCEPT !.timer = FALSE], "null", pg)
  ELSE [pr EXCEPT !.nextPoll = @ + PollPeriod]

UIUnchanged ==
  UNCHANGED <<camVars, inputVars, graphVars, physVars, logicVars, bootVars>>

\* a script calls ctx.getUIElement(ref, maxWaitMs)
CallGetUIElement ==
  /\ uiPromise.state = "none"
  /\ \E ref \in UIRefs, maxWaitMs \in 1..4 :
       uiPromise' = getUIElement(page, ref, maxWaitMs)
  /\ UNCHANGED page
  /\ UIUnchanged

\* the interval timer fires, at its due time or later
PollTimer ==
  /\ uiPromise.timer
  /\ page.now >= uiPromise.nextPoll
  /\ uiPromise' = poll(page, uiPromise)
  /\ UNCHANGED page
  /\ UIUnchanged

\* 50 ms pass
ClockTick ==
  /\ uiPromise.state # "none"
  /\ page.now < MaxClock
  /\ page' = [page EXCEPT !.now = @ + 1]
  /\ UNCHANGED uiPromise
  /\ UIUnchanged

\* the UI loader or the spatial UI renders the element
ElementRendered ==
  /\ page.uiLoader
  /\ \E kind \in {"spatial", "screen"} :
       /\ ~(IF kind = "spatial" THEN page.spatialElement ELSE page.screenElement)
       /\ page' = IF kind = "spatial" THEN [page EXCEPT !.spatialElement = TRUE]
                  ELSE [page EXCEPT !.screenElement = TRUE]
  /\ UNCHANGED uiPromise
  /\ UIUnchanged

NoPage ==
  [uiLoader |-> FALSE, spatialElement |-> FALSE, screenElement |-> FALSE, now |-> 0]

NoUI ==
  /\ page = NoPage
  /\ uiPromise = NoPromise

(* ----------------------- startup --------------------------------------- *)
\* what fetching scene.json can give: the fetch rejects, the status is not
\* ok, the body is not JSON, the value is null, has no nodes, has nodes that
\* are not an array, or is a graph
SceneOutcomes == {"network", "status", "syntax", "null", "noNodes", "notArray", "graph"}

\* variant: the parsed value is used without the validation of the graph
loadSceneGraphUnvalidated(scene) ==
  IF scene = "network" THEN "throws"
  ELSE IF scene = "status" THEN "throws"
  ELSE IF scene = "syntax" THEN "throws"
  ELSE "graph"

\* fetch, response.ok, response.json() and the validation of the graph
loadSceneGraph(scene) ==
  IF scene = "network" THEN "throws"
  ELSE IF scene = "status" THEN "throws"
  ELSE IF scene = "syntax" THEN "throws"
  ELSE IF scene \in {"null", "noNodes", "notArray"} THEN "throws"
  ELSE "graph"

\* variant: the custom logic is loaded before the UI
StartupSequenceLogicFirst ==
  <<"loadSceneGraph", "initializePhysics", "instantiateGraph", "prepareScene",
    "initializeManagers", "runRenderLoop", "fetchCustomLogic", "loadCustomLogics",
    "loadUI", "initializeUI", "setupSpatialUI">>

\* the statements of the startup function, in the order it awaits them
StartupSequence ==
  <<"loadSceneGraph", "initializePhysics", "instantiateGraph", "prepareScene",
    "initializeManagers", "runRenderLoop", "fetchCustomLogic", "loadUI",
    "initializeUI", "setupSpatialUI", "loadCustomLogics">>

After(step) ==
  LET i == CHOOSE k \in 1..Len(StartupSequence) : StartupSequence[k] = step
  IN  IF i = Len(StartupSequence) THEN "running" ELSE StartupSequence[i + 1]

Proceed(b, step) == [b EXCEPT !.pc = After(step), !.log = Append(@, step)]

\* the catch of the startup function: showError
Abort(b, step) ==
  [b EXCEPT !.pc = "aborted", !.log = Append(@, step), !.error = TRUE]

BootUnchanged ==
  UNCHANGED <<camVars, inputVars, graphVars, physVars, logicVars, uiVars>>

LoadSceneGraph ==
  /\ boot.pc = "loadSceneGraph"
  /\ boot' = IF loadSceneGraph(boot.scene) = "throws"
             THEN Abort(boot, "loadSceneGraph")
             ELSE Proceed(boot, "loadSceneGraph")
  /\ BootUnchanged

\* physics && physics.enabled: await Ammo(), enablePhysics, ammoWorld; a
\* failure is caught and logged
InitializePhysics ==
  /\ boot.pc = "initializePhysics"
  /\ boot' = [Proceed(boot, "initializePhysics") EXCEPT !.physics =
                IF boot.settings # "physicsOn" THEN "off"
                ELSE IF boot.ammo = "defined" THEN "enabled"
                ELSE IF boot.ammo = "undefined" THEN "unavailable"
                ELSE "failed"]
  /\ BootUnchanged

\* await instantiateGraph: a rejection reaches the catch of the startup
InstantiateGraph ==
  /\ boot.pc = "instantiateGraph"
  /\ boot' = IF boot.graphRejects
             THEN [Abort(boot, "instantiateGraph") EXCEPT !.nodes = TRUE]
             ELSE [Proceed(boot, "instantiateGraph") EXCEPT !.nodes = TRUE]
  /\ BootUnchanged

\* applySceneSettings and scene.whenReadyAsync
PrepareScene ==
  /\ boot.pc = "prepareScene"
  /\ boot' = [Proceed(boot, "prepareScene") EXCEPT
                !.settingsApplied = boot.settings # "absent"]
  /\ BootUnchanged

\* input controls, camera tracking, shake and collision, audio; material
\* overrides
InitializeManagers ==
  /\ boot.pc = "initializeManagers"
  /\ boot' = [Proceed(boot, "initializeManagers") EXCEPT
                !.managers = {"input", "tracking", "shake", "collision", "audio"}]
  /\ BootUnchanged

\* engine.runRenderLoop and the resize and beforeunload listeners
RunRenderLoop ==
  /\ boot.pc = "runRenderLoop"
  /\ boot' = [Proceed(boot, "runRenderLoop") EXCEPT !.renderLoop = TRUE]
  /\ BootUnchanged

\* customLogic.json and the script files: every failure is logged only
FetchCustomLogic ==
  /\ boot.pc = "fetchCustomLogic"
  /\ boot' = [Proceed(boot, "fetchCustomLogic") EXCEPT
                !.customLogicData = boot.logicFile = "ok"]
  /\ BootUnchanged

\* new UILoader(...) and await uiLoader.loadUI()
LoadUI ==
  /\ boot.pc = "loadUI"
  /\ boot' = Proceed(boot, "loadUI")
  /\ BootUnchanged

\* uiLoader.initializeUI(canvas) when the UI loaded; window.uiLoader
InitializeUI ==
  /\ boot.pc = "initializeUI"
  /\ boot' = [Proceed(boot, "initializeUI") EXCEPT
                !.uiInitialized = boot.uiFile, !.uiLoader = TRUE]
  /\ BootUnchanged

\* the spatial UI container and the updateSpatialUI function
SetupSpatialUI ==
  /\ boot.pc = "setupSpatialUI"
  /\ boot' = [Proceed(boot, "setupSpatialUI") EXCEPT !.updateSpatialUI = TRUE]
  /\ BootUnchanged

\* new CustomLogicManager(scene), await loadCustomLogics, hideLoading
LoadCustomLogic ==
  /\ boot.pc = "loadCustomLogics"
  /\ boot' = [Proceed(boot, "loadCustomLogics") EXCEPT
                !.customLogicManager = boot.customLogicData,
                !.sawUI = boot.customLogicData /\ boot.uiLoader,
                !.sawSpatialUI = boot.customLogicData /\ boot.updateSpatialUI,
                !.loading = FALSE]
  /\ BootUnchanged

\* the callback of the render loop: scene.render(), the update of the
\* custom logic when its manager exists, updateSpatialUI when it is defined
RenderFrame ==
  /\ boot.renderLoop
  /\ boot.frames < MaxFrames
  /\ boot' = [boot EXCEPT !.frames = @ + 1,
                          !.logicUpdates = @ + (IF boot.customLogicManager THEN 1 ELSE 0),
                          !.projections = @ + (IF boot.updateSpatialUI THEN 1 ELSE 0)]
  /\ BootUnchanged

BootInit(scene, settings, ammo, graphRejects, logicFile, uiFile) ==
  [pc |-> "loadSceneGraph", log |-> <<>>, scene |-> scene, settings |-> settings,
   ammo |-> ammo, graphRejects |-> graphRejects, logicFile |-> logicFile,
   uiFile |-> uiFile, error |-> FALSE, loading |-> TRUE, physics |-> "pending",
   nodes |-> FALSE, settingsApplied |-> FALSE, managers |-> {},
   renderLoop |-> FALSE, customLogicData |-> FALSE, uiInitialized |-> FALSE,
   uiLoader |-> FALSE, updateSpatialUI |-> FALSE, customLogicManager |-> FALSE,
   sawUI |-> FALSE, sawSpatialUI |-> FALSE, frames |-> 0, logicUpdates |-> 0,
   projections |-> 0]

NoBoot ==
  boot = [BootInit("graph", "absent", "undefined", FALSE, "404", FALSE)
            EXCEPT !.pc = "none"]

NoRest ==
  /\ NoUI
  /\ NoBoot

(* ----------------------- specification --------------------------------- *)
Descriptor(arc, preset, coll, track) ==
  [isArc |-> arc, shakePreset |-> preset, collision |-> coll, tracking |-> track,
   hasTargetObject |-> track, targetOffset |-> 5]

Configs ==
  { Descriptor(TRUE, "natural", TRUE, FALSE),
    Descriptor(TRUE, "natural", FALSE, TRUE),
    Descriptor(FALSE, "natural", TRUE, TRUE),
    Descriptor(TRUE, "none", TRUE, TRUE),
    Descriptor(FALSE, "natural", FALSE, FALSE),
    Descriptor(TRUE, "none", FALSE, TRUE) }

CameraInit(c) ==
  /\ cfg = c
  /\ pc = 0
  /\ stepLog = <<>>
  /\ event = "init"
  /\ camera = [target |-> 0, alpha |-> 0, beta |-> 0, radius |-> InitRadius,
               position |-> InitRadius]
  /\ shake = [time |-> 0,
              offset |-> [set |-> FALSE, x |-> 0, alpha |-> 0, beta |-> 0],
              original |-> [set |-> FALSE, alpha |-> 0, beta |-> 0, target |-> 0,
                            position |-> 0]]
  /\ cameraData = [desiredRadius |-> InitRadius, currentRadius |-> InitRadius,
                   isColliding |-> FALSE, lastPosition |-> InitRadius,
                   framesSinceCheck |-> 0, staticFrames |-> 0,
                   updateInterval |-> IntervalNormal]
  /\ lastRadius = InitRadius
  /\ \E n \in BOOLEAN, h \in HitDistances \cup {NoHit} :
       /\ (h # NoHit) => n
       /\ world = [targetWorld |-> 0, near |-> n, hit |-> h]
  /\ events = [camera |-> 0, keys |-> 0]
  /\ ghost = [preShake |-> camera, shaken |-> FALSE, userRadius |-> InitRadius]

\* the frame pipeline with its cameras; the user leaves the keyboard alone
Init ==
  /\ \E c \in Configs : CameraInit(c)
  /\ InputInit(InputControl(TRUE, "Grounded Avatar", FALSE, 1200), {})
  /\ NoGraph
  /\ NoPhysics
  /\ NoLogic
  /\ NoRest

Next ==
  \/ TrackingUpdate
  \/ ShakeBeforeRender
  \/ CollisionUpdate
  \/ Render
  \/ ShakeAfterRender
  \/ CustomLogicUpdate
  \/ SpatialUIUpdate
  \/ Zoom
  \/ ProjectionChanged
  \/ MoveTarget
  \/ SetObstacle
  \/ InputTick

Spec == Init /\ [][Next]_vars

\* the input control manager with one controlled node; the camera is left alone
Keyboards == {{"ShiftLeft", "KeyW", "KeyS"}, {"Space", "KeyW"}, {"KeyA", "KeyW", "KeyX"}}

InputConfigs ==
  { InputControl(TRUE, "Grounded Avatar", FALSE, 1200),
    InputControl(TRUE, "Grounded Avatar", TRUE, 400),
    InputControl(TRUE, "Grounded Avatar", TRUE, 1200),
    InputControl(FALSE, "Grounded Avatar", FALSE, 1200),
    InputControl(FALSE, "Grounded Avatar", TRUE, 1200),
    InputControl(TRUE, "Input Control 1", FALSE, 400) }

InitInput ==
  /\ CameraInit(Descriptor(TRUE, "none", FALSE, FALSE))
  /\ world.near = FALSE
  /\ \E c \in InputConfigs, kb \in Keyboards : InputInit(c, kb)
  /\ NoGraph
  /\ NoPhysics
  /\ NoLogic
  /\ NoRest

NextInput ==
  \/ KeyDown
  \/ KeyUp
  \/ InputTick
  \/ PhysicsStep

SpecInput == InitInput /\ [][NextInput]_vars

\* instantiation of a scene description: the nodes an editor can export
CrateId == <<"crate">>
NodePool ==
  { GraphNode(CrateId, "model", "Crate", NoParent, Transform(10, 1, 8),
              "crate.glb", "", FALSE),
    GraphNode(<<"crate", MESH_TAG, "a">>, "mesh", "Cube", CrateId,
              Transform(1, 0, 4), "", "", FALSE),
    GraphNode(<<"crate", MESH_TAG, "b">>, "mesh", "Cube", CrateId,
              Transform(2, 1, 8), "", "", FALSE),
    GraphNode(<<"crate", MESH_TAG, "c">>, "mesh", "Lid", CrateId,
              PositionOnly(3), "", "", FALSE),
    GraphNode(<<"box1">>, "mesh", "Cube", CrateId, Transform(5, 1, 4),
              "", "cube", FALSE),
    GraphNode(<<"lamp">>, "light", "Lamp", CrateId, PositionOnly(4),
              "", "", FALSE),
    GraphNode(<<"speaker">>, "audio", "Speaker", <<"box1">>, Transform(2, 1, 8),
              "", "", FALSE),
    GraphNode(<<"broken">>, "audio", "Broken", NoParent, NoTransform,
              "", "", FALSE),
    GraphNode(<<"flare">>, "light", "Flare", NoParent, PositionOnly(7),
              "", "", TRUE),
    GraphNode(<<"barrel">>, "model", "Barrel", NoParent, PositionOnly(6),
              "barrel.glb", "", FALSE) }

\* scene descriptions: lists of different nodes (node ids are unique)
Graphs ==
  { g \in UNION { [1..n -> NodePool] : n \in 1..MaxNodes } :
      \A i, j \in 1..Len(g) : i # j => g[i] # g[j] }

InitGraph ==
  /\ CameraInit(Descriptor(TRUE, "none", FALSE, FALSE))
  /\ world.near = FALSE
  /\ InputInit(InputControl(TRUE, "Grounded Avatar", FALSE, 1200), {})
  /\ NoPhysics
  /\ NoLogic
  /\ NoRest
  /\ graph \in Graphs
  /\ objects = <<>>
  /\ loader = LoaderInit("first")

NextGraph ==
  \/ FirstPass
  \/ SecondPass
  \/ ThirdPass
  \/ ContinueStartup

SpecGraph == InitGraph /\ [][NextGraph]_vars

\* physics binding: one live object, bound and bound again
InitPhysics ==
  /\ CameraInit(Descriptor(TRUE, "none", FALSE, FALSE))
  /\ world.near = FALSE
  /\ InputInit(InputControl(TRUE, "Grounded Avatar", FALSE, 1200), {})
  /\ NoGraph
  /\ \E isMesh, gltf, namedPrimitive, hasParent, hasGeometry,
        runtimePrimitive \in BOOLEAN :
       /\ hasGeometry => isMesh
       /\ runtimePrimitive => isMesh /\ hasGeometry /\ ~gltf /\ ~hasParent
       /\ target = Target(isMesh, gltf, namedPrimitive, hasParent, hasGeometry,
                          runtimePrimitive)
  /\ \E available \in BOOLEAN :
       applied = [count |-> 0, props |-> NoProps, ammoWorld |-> available,
                  repeated |-> FALSE]
  /\ NoLogic
  /\ NoRest

NextPhysics == ApplyPhysics

SpecPhysics == InitPhysics /\ [][NextPhysics]_vars

\* the custom logic host: a manifest is loaded while the render loop runs
LogicPool ==
  { Logic("crate", k, TRUE) : k \in ScriptKinds }
    \cup { Logic("__scene__", "plain", TRUE), Logic("crate", "plain", FALSE),
           Logic("missing", "plain", TRUE) }

Manifests == UNION { [1..n -> LogicPool] : n \in 1..MaxScripts }

InitLogic ==
  /\ CameraInit(Descriptor(TRUE, "none", FALSE, FALSE))
  /\ world.near = FALSE
  /\ InputInit(InputControl(TRUE, "Grounded Avatar", FALSE, 1200), {})
  /\ NoGraph
  /\ NoPhysics
  /\ manifest \in Manifests
  /\ host = NoHost
  /\ instances = [i \in 1..Len(manifest) |-> NoInstance]
  /\ NoRest

NextLogic ==
  \/ LoadLogics
  \/ RenderLoopCallback
  \/ AttachSettles
  \/ DisposeLogics

SpecLogic == InitLogic /\ [][NextLogic]_vars

\* one call of getUIElement while the page renders its UI; timers fire and
\* time passes
InitUI ==
  /\ CameraInit(Descriptor(TRUE, "none", FALSE, FALSE))
  /\ world.near = FALSE
  /\ InputInit(InputControl(TRUE, "Grounded Avatar", FALSE, 1200), {})
  /\ NoGraph
  /\ NoPhysics
  /\ NoLogic
  /\ \E present \in BOOLEAN, rendered \in BOOLEAN :
       page = [NoPage EXCEPT !.uiLoader = present,
                             !.screenElement = present /\ rendered]
  /\ uiPromise = NoPromise
  /\ NoBoot

NextUI ==
  \/ CallGetUIElement
  \/ PollTimer
  \/ ClockTick
  \/ ElementRendered

SpecUI == InitUI /\ [][NextUI]_vars /\ WF_vars(PollTimer) /\ WF_vars(ClockTick)

\* one startup of the runtime, for every answer of the environment
InitBoot ==
  /\ CameraInit(Descriptor(TRUE, "none", FALSE, FALSE))
  /\ world.near = FALSE
  /\ InputInit(InputControl(TRUE, "Grounded Avatar", FALSE, 1200), {})
  /\ NoGraph
  /\ NoPhysics
  /\ NoLogic
  /\ NoUI
  /\ \E scene \in SceneOutcomes, settings \in {"absent", "physicsOff", "physicsOn"},
        ammo \in {"defined", "undefined", "throws"}, graphRejects \in BOOLEAN,
        logicFile \in {"ok", "404", "error", "network"}, uiFile \in BOOLEAN :
       boot = BootInit(scene, settings, ammo, graphRejects, logicFile, uiFile)

NextBoot ==
  \/ LoadSceneGraph
  \/ InitializePhysics
  \/ InstantiateGraph
  \/ PrepareScene
  \/ InitializeManagers
  \/ RunRenderLoop
  \/ FetchCustomLogic
  \/ LoadUI
  \/ InitializeUI
  \/ SetupSpatialUI
  \/ LoadCustomLogic
  \/ RenderFrame

SpecBoot == InitBoot /\ [][NextBoot]_vars

\* an orbit camera with the collision manager only, followed until its
\* static counter has passed every threshold
InitCollision ==
  /\ CameraInit(Descriptor(TRUE, "none", TRUE, FALSE))
  /\ InputInit(InputControl(TRUE, "Grounded Avatar", FALSE, 1200), {})
  /\ NoGraph
  /\ NoPhysics
  /\ NoLogic
  /\ NoRest

NextCollision ==
  \/ CollisionUpdate
  \/ Render
  \/ CustomLogicUpdate
  \/ SpatialUIUpdate
  \/ Zoom
  \/ SetObstacle

SpecCollision == InitCollision /\ [][NextCollision]_vars

\* a free camera that shakes, avoids collisions and has a target entity; the
\* user moves it
InitFree ==
  /\ CameraInit(Descriptor(FALSE, "natural", TRUE, TRUE))
  /\ InputInit(InputControl(TRUE, "Grounded Avatar", FALSE, 1200), {})
  /\ NoGraph
  /\ NoPhysics
  /\ NoLogic
  /\ NoRest

NextFree ==
  \/ TrackingUpdate
  \/ ShakeBeforeRender
  \/ CollisionUpdate
  \/ Render
  \/ ShakeAfterRender
  \/ CustomLogicUpdate
  \/ SpatialUIUpdate
  \/ MoveCamera
  \/ MoveTarget
  \/ SetObstacle

SpecFree == InitFree /\ [][NextFree]_vars

\* the keyboard listeners alone: every order of presses and releases
NextKeys ==
  \/ KeyDown
  \/ KeyUp

SpecKeys == InitInput /\ [][NextKeys]_vars

\* a physics-driven avatar with both turn keys on the keyboard; contacts turn
\* its body between the ticks
InitBody ==
  /\ CameraInit(Descriptor(TRUE, "none", FALSE, FALSE))
  /\ world.near = FALSE
  /\ \E kb \in {{"KeyA", "KeyD", "KeyW"}, {"KeyD", "KeyX"}} :
       InputInit(InputControl(TRUE, "Grounded Avatar", TRUE, 400), kb)
  /\ NoGraph
  /\ NoPhysics
  /\ NoLogic
  /\ NoRest

NextBody ==
  \/ KeyDown
  \/ KeyUp
  \/ InputTick
  \/ PhysicsStep
  \/ BodyTumbles

SpecBody == InitBody /\ [][NextBody]_vars

\* a non-physics avatar whose keyboard has the jump key and a key bound to
\* nothing; the interval timer of startInputUpdateLoop fires for as long as
\* the page lives
InitJump ==
  /\ CameraInit(Descriptor(TRUE, "none", FALSE, FALSE))
  /\ world.near = FALSE
  /\ \E h \in {400, 1200} :
       InputInit(InputControl(TRUE, "Grounded Avatar", FALSE, h), {"Space", "KeyX"})
  /\ NoGraph
  /\ NoPhysics
  /\ NoLogic
  /\ NoRest

NextJump ==
  \/ KeyDown
  \/ KeyUp
  \/ InputTick

SpecJump == InitJump /\ [][NextJump]_vars /\ WF_vars(InputTick)

\* a physics-driven avatar that can jump onto a platform; the interval timer
\* and the physics world keep stepping
InitLanding ==
  /\ CameraInit(Descriptor(TRUE, "none", FALSE, FALSE))
  /\ world.near = FALSE
  /\ InputInit(InputControl(TRUE, "Grounded Avatar", TRUE, 1200), {"Space"})
  /\ NoGraph
  /\ NoPhysics
  /\ NoLogic
  /\ NoRest

NextLanding ==
  \/ KeyDown
  \/ KeyUp
  \/ InputTick
  \/ PhysicsStep
  \/ OverPlatform

SpecLanding ==
  InitLanding /\ [][NextLanding]_vars /\ WF_vars(InputTick) /\ WF_vars(PhysicsStep)

\* an avatar whose forward binding is Shift+W, on a keyboard with both keys
ChordControl(physics) ==
  [InputControl(TRUE, "Grounded Avatar", physics, 1200)
     EXCEPT !.forward = [Binding("KeyW") EXCEPT !.shift = TRUE]]

InitChord ==
  /\ CameraInit(Descriptor(TRUE, "none", FALSE, FALSE))
  /\ world.near = FALSE
  /\ \E physics \in BOOLEAN :
       InputInit(ChordControl(physics), {"ShiftLeft", "KeyW", "KeyS"})
  /\ NoGraph
  /\ NoPhysics
  /\ NoLogic
  /\ NoRest

NextChord ==
  \/ KeyDown
  \/ KeyUp
  \/ InputTick
  \/ PhysicsStep

SpecChord == InitChord /\ [][NextChord]_vars

\* scene descriptions with one asset imported once or twice: each model with
\* its child mesh "Cube", the tokens of the two children equal, and every
\* setting of the flags visible and enabled of the first model and its child
TwinModel(id, p) ==
  GraphNode(<<id>>, "model", "Crate", NoParent, Transform(p, 1, 8), "crate.glb", "", FALSE)
TwinChild(id, p) ==
  GraphNode(<<id, MESH_TAG, "a">>, "mesh", "Cube", <<id>>, Transform(p, 0, 4), "", "", FALSE)

TwinGraphs ==
  UNION { { << WithFlags(TwinModel("crateA", 10), pv, pe),
               WithFlags(TwinChild("crateA", 1), cv, ce) >>,
            << WithFlags(TwinChild("crateA", 1), cv, ce),
               WithFlags(TwinModel("crateA", 10), pv, pe) >>,
            << WithFlags(TwinModel("crateA", 10), pv, pe),
               WithFlags(TwinChild("crateA", 1), cv, ce),
               TwinModel("crateB", 20), TwinChild("crateB", 2) >>,
            << WithFlags(TwinModel("crateA", 10), pv, pe),
               TwinModel("crateB", 20),
               TwinChild("crateB", 2),
               WithFlags(TwinChild("crateA", 1), cv, ce) >> } :
          pv \in BOOLEAN, pe \in BOOLEAN, cv \in BOOLEAN, ce \in BOOLEAN }

InitTwin ==
  /\ CameraInit(Descriptor(TRUE, "none", FALSE, FALSE))
  /\ world.near = FALSE
  /\ InputInit(InputControl(TRUE, "Grounded Avatar", FALSE, 1200), {})
  /\ NoPhysics
  /\ NoLogic
  /\ NoRest
  /\ graph \in TwinGraphs
  /\ objects = <<>>
  /\ loader = LoaderInit("first")

NextTwin ==
  \/ FirstPass
  \/ SecondPass
  \/ ContinueStartup

SpecTwin == InitTwin /\ [][NextTwin]_vars

(* ======================= claims ======================================== *)
\* position of a step in an order, 0 when absent
RECURSIVE IndexIn(_, _, _)
IndexIn(order, step, i) ==
  IF i > Len(order) THEN 0
  ELSE IF order[i] = step THEN i ELSE IndexIn(order, step, i + 1)

\* the steps of a frame appear in the log in the relative order of `order`
FollowsOrder(log, order) ==
  /\ \A i \in 1..Len(log) : IndexIn(order, log[i], 1) > 0
  /\ \A i, j \in 1..Len(log) :
       i < j => IndexIn(order, log[i], 1) < IndexIn(order, log[j], 1)

ClaimedFrameOrder ==
  <<"shakeApply", "render", "shakeRestore", "tracking", "collision", "inputTick",
    "customLogic", "spatialUI">>

AmendedFrameOrder ==
  <<"tracking", "shakeApply", "collision", "render", "shakeRestore", "customLogic",
    "spatialUI">>

StepRuns(c, step) ==
  \/ step \in {"render", "customLogic", "spatialUI"}
  \/ step = "shakeRestore" /\ c.shakePreset # "none"
  \/ step \in {"tracking", "shakeApply", "collision"} /\ Registered(c, step)

C2_OnlyRenderWhileShaken ==
  ghost.shaken => event \in {"shakeApply", "render"}

\* C3: after the after-render restore the camera's target, alpha and beta
\* (orbit) or position (free) are the values from immediately before the
\* shake offset of that frame; between frames alpha and beta, which only the
\* shake writes, still have their authored values.
C3_ShakeRestored ==
  /\ event = "shakeRestore" =>
       IF cfg.isArc
       THEN /\ camera.target = ghost.preShake.target
            /\ camera.alpha = ghost.preShake.alpha
            /\ camera.beta = ghost.preShake.beta
       ELSE camera.position = ghost.preShake.position
  /\ pc = 0 => camera.alpha = 0 /\ camera.beta = 0

\* a restore has just undone a non-zero offset on an orbit camera
C3_Witness ==
  /\ event = "shakeRestore"
  /\ cfg.isArc
  /\ shake.offset.x # 0
  /\ shake.offset.alpha # 0
  /\ shake.time = 0

\* C4: on a hit the radius moves toward max(0.1, d - cushion) without
\* overshooting it, and the radius never exceeds the desired radius.
C4_RadiusWithinDesired ==
  [][(cfg.isArc /\ cfg.collision) =>
       /\ camera'.radius <= cameraData'.desiredRadius
       /\ (event' = "collision" /\ cameraData'.isColliding
             /\ camera'.radius # camera.radius /\ world.hit # NoHit) =>
            LET t == Max(MinDistance, world.hit - Cushion) IN
            \/ camera.radius <= camera'.radius /\ camera'.radius <= t
            \/ t <= camera'.radius /\ camera'.radius <= camera.radius]_vars

\* C5: whenever the collision state of an orbit camera is cleared, its radius
\* is back at the desired radius.
C5_ClearedAtDesired ==
  [][(cfg.isArc /\ cameraData.isColliding /\ ~cameraData'.isColliding) =>
       camera'.radius = cameraData'.desiredRadius]_vars

\* C6: a user zoom becomes the desired radius, also while colliding.
C6_ZoomBecomesDesired ==
  [][(event' = "zoom" /\ events' # events /\ cfg.collision) =>
       cameraData'.desiredRadius = ghost'.userRadius]_vars

\* C7: the desired radius changes only by a user zoom, to the zoomed value.
C7_DesiredOnlyByZoom ==
  [][cameraData'.desiredRadius # cameraData.desiredRadius =>
       event' = "zoom" /\ cameraData'.desiredRadius = ghost'.userRadius]_vars

\* C8: no movement is ever applied to an entity whose descriptor has
\* active = false.
C8_InactiveNeverMoves ==
  ic.active \/ inputGhost.applied = <<>>

\* C9: no jump is started while the entity is in the air.
C9_NoAirJump ==
  ~inputGhost.airJump

\* C10: while the key bound to forward stays held, the active entity's
\* displacement along its forward vector does not decrease.
C10_ForwardNonDecreasing ==
  [][(ic.active /\ ic.forward.key \in activeKeys /\ ic.forward.key \in activeKeys') =>
       LET h == getForwardDirection(ic, object) IN
       (object'.position.x - object.position.x) * SinMilli(h)
         + (object'.position.z - object.position.z) * CosMilli(h) >= 0]_vars

\* no key bound to a movement is held
NoMovementKeyHeld ==
  \A i \in 1..Len(Movements) : ~HeldKeyOf(ic, Movements[i], Manager)

\* C11: once the last held movement key is released, the controlled entity
\* is not Moving and its current animation is the configured idle animation,
\* at the release and for as long as no movement key is held.
C11_IdleAfterRelease ==
  NoMovementKeyHeld =>
    /\ ~controlData.isMoving
    /\ controlData.currentAnimation = ic.idleAnimationId

\* w is v times the damping factor, dropped to the velocity grid
DampedFrom(v, w) ==
  /\ Sign(w) \in {0, Sign(v)}
  /\ 100 * Abs(w) <= DampingPercent * Abs(v)
  /\ 100 * Abs(w) > DampingPercent * Abs(v) - 100

\* C12: in every input tick with no movement key held, the horizontal
\* velocity of a physics-driven entity becomes the old one times the damping
\* factor, applied once: it shrinks geometrically and is not set to zero.
C12_DampedOncePerTick ==
  [][(event' = "inputTick" /\ ic.hasPhysics /\ ~hasActiveMovementKeys(ic, Manager)) =>
       /\ DampedFrom(object.velocity.x, object'.velocity.x)
       /\ DampedFrom(object.velocity.z, object'.velocity.z)]_vars

\* a tick has damped the velocity of a released physics-driven entity
C12_Witness ==
  /\ event = "inputTick"
  /\ ic.hasPhysics
  /\ ~hasActiveMovementKeys(ic, Manager)
  /\ object.velocity.z > 0
  /\ object.velocity.z < PhysicsSpeed

\* instantiateGraph has returned (the startup may have gone on)
GraphComplete == loader.phase \in {"done", "started"}

\* C13: a Node that fails to instantiate, a Node without a transform
\* included, never aborts the instantiation: the loader is never left by an
\* exception, and once it has returned every Node of the scene description
\* has been through instantiateNode.
C13_FailureDoesNotAbort ==
  /\ loader.phase # "aborted"
  /\ GraphComplete => \A i \in 1..Len(graph) : graph[i].id \in loader.visited

\* the model Nodes of the scene description whose container was loaded
LoadedModels ==
  {i \in 1..Len(graph) : graph[i].kind = "model"
                           /\ getNodeById(objects, graph[i].id) # 0}

\* the child-mesh Nodes of the model at position m, by position in the graph
ChildMeshNodes(m) ==
  {i \in 1..Len(graph) : IsDeferred(graph[i]) /\ graph[i].parentId = graph[m].id}

\* the sub-meshes loaded for the model at position m
SubMeshes(m) ==
  {k \in 1..Len(objects) : /\ objects[k].loadedBy = graph[m].id
                           /\ objects[k].type = "Mesh"
                           /\ objects[k].name # "__root__"}

\* the Node at position i received the live object k when it was instantiated
Bound(i, k) ==
  \E j \in 1..Len(objects[k].boundBy) : objects[k].boundBy[j] = graph[i].id

\* C14: once the graph is instantiated, under every loaded model each
\* child-mesh Node is bound to exactly one sub-mesh in the scene, each
\* sub-mesh kept in the scene is bound to exactly one child-mesh Node, and a
\* sub-mesh that matched no Node is not in the scene.
C14_OneToOne ==
  GraphComplete =>
    \A m \in LoadedModels :
      /\ \A i \in ChildMeshNodes(m) :
           Cardinality({k \in 1..Len(objects) :
                          objects[k].inScene /\ Bound(i, k)}) = 1
      /\ \A k \in SubMeshes(m) :
           objects[k].inScene =>
             Cardinality({i \in ChildMeshNodes(m) : Bound(i, k)}) = 1
      /\ \A k \in SubMeshes(m) :
           objects[k].stableId = "undefined" => ~objects[k].inScene

\* the n-th smallest element of a set of numbers
Nth(S, n) == CHOOSE x \in S : Cardinality({y \in S : y < x}) = n - 1

\* the sub-meshes of model m that carry the name of Node i, in load order
SameNameSubMeshes(m, i) ==
  {k \in SubMeshes(m) : LowerName(objects[k].name) = LowerName(graph[i].name)}

\* C15: of two child-mesh Nodes with the same name under a loaded model, the
\* one that comes first in the graph is bound to the first loaded sub-mesh of
\* that name and the other one to the second, whatever other Nodes the graph
\* holds.
C15_OccurrenceOrder ==
  GraphComplete =>
    \A m \in LoadedModels :
      \A i, j \in ChildMeshNodes(m) :
        (i < j /\ LowerName(graph[i].name) = LowerName(graph[j].name)
           /\ Cardinality(SameNameSubMeshes(m, i)) >= 2) =>
          /\ Bound(i, Nth(SameNameSubMeshes(m, i), 1))
          /\ Bound(j, Nth(SameNameSubMeshes(m, i), 2))

\* the live object k carries the authored local transform of `node`
HasAuthoredTransform(k, node) ==
  /\ objects[k].position = node.transform.position
  /\ objects[k].rotation = RotationOf(node.transform)
  /\ objects[k].scaling = ScalingOf(node.transform)

Bound17 == applied.count > 0

\* C17: after a descriptor of type static or kinematic is bound, the bodies
\* of the entity (generic impostor, raw collider) have mass 0 whatever mass
\* the descriptor declares; a body with a mass comes from a dynamic
\* descriptor only, and its mass is the declared one (1 when none is declared).
C17_MassByType ==
  Bound17 =>
    /\ applied.props.type \in {"static", "kinematic"} =>
         /\ target.physicsImpostor.mass = 0
         /\ target.ammoBody.mass = 0
    /\ target.physicsImpostor.mass # 0 =>
         /\ applied.props.type = "dynamic"
         /\ target.physicsImpostor.mass =
              IF applied.props.mass # 0 THEN applied.props.mass ELSE DefaultMass

\* a kinematic descriptor that declares a mass was bound as a generic
\* impostor, after a dynamic one had given the entity a mass
C17_Witness ==
  /\ applied.count = 2
  /\ applied.props.type = "kinematic" /\ applied.props.mass = 5
  /\ target.physicsImpostor.attached /\ target.physicsImpostor.mass = 0

\* C18: after a descriptor with impostor meshCollider is bound, the entity
\* has no generic impostor, whatever the other fields of the descriptor are
\* and whether or not the raw collider was built.
C18_NoGenericImpostor ==
  (Bound17 /\ applied.props.impostor = "meshCollider") =>
    ~target.physicsImpostor.attached

\* a meshCollider descriptor was bound to an entity that carried a generic
\* impostor, and the raw collider could not be built
C18_Witness ==
  /\ applied.count = 2
  /\ applied.props.impostor = "meshCollider"
  /\ ~applied.props.isCollider
  /\ ~target.isRawAmmoCollider
  /\ ~target.physicsImpostor.attached

\* C19: an instance is updated only after its attach came back without a
\* failure (never with no attach, a thrown attach or a rejected one), once
\* in every frame rendered while it is attached and the host is not
\* disposed, and never otherwise.
C19_Lifecycle ==
  \A i \in 1..Len(instances) :
    /\ instances[i].updatedIn \subseteq {"returned", "pending", "resolved"}
    /\ instances[i].updates =
         IF (instances[i].registered /\ manifest[i].enabled
               /\ HasUpdate(manifest[i].kind))
         THEN host.liveFrames ELSE 0

\* the scripts that the loading has to skip
FailingKinds == {"syntaxError", "noClass", "noAttach", "attachThrows"}

Settled == uiPromise.state \in {"resolved", "rejected"}

\* C21 (as stated): the promise settles once and never rejects, its timer is
\* cancelled once it has settled, and it resolves to the element only when
\* the element was found at call time or at a poll made before the timeout
\* elapsed.
C21_ElementOnlyBeforeTimeout ==
  /\ ~uiPromise.rejected /\ uiPromise.resolveCalls <= 1
  /\ Settled => ~uiPromise.timer
  /\ (Settled /\ uiPromise.value # "null") =>
       \/ uiPromise.foundAtCall
       \/ uiPromise.settledAt <= uiPromise.maxWaitMs

\* what holds of the promise in every state
C21_SettledState ==
  /\ ~uiPromise.rejected
  /\ uiPromise.resolveCalls = IF Settled THEN 1 ELSE 0
  /\ uiPromise.timer <=> uiPromise.state = "pending"
  /\ (Settled /\ uiPromise.value # "null") => uiPromise.presentAtSettle
  /\ (Settled /\ uiPromise.value = "null" /\ uiPromise.settledAt > 0) =>
       /\ ~uiPromise.presentAtSettle
       /\ uiPromise.settledAt > uiPromise.maxWaitMs
  /\ uiPromise.state = "pending" =>
       uiPromise.nextPoll - PollPeriod <= uiPromise.maxWaitMs

\* C21 (amended): every call settles, exactly once and never by rejection,
\* and its timer runs exactly while it is pending; it resolves to the
\* element when the element is found at call time or at any poll, the first
\* poll after the timeout included, and to null when a poll made after the
\* timeout finds nothing (or there is no reference or no UI loader); no poll
\* made after the timeout leaves it pending.
C21_SettlesOnce ==
  /\ []C21_SettledState
  /\ (uiPromise.state = "pending") ~> Settled

\* the element was rendered after the timeout had elapsed and the next poll
\* resolved the promise to it
C21_Witness ==
  /\ Settled /\ uiPromise.value = "spatial"
  /\ ~uiPromise.foundAtCall
  /\ uiPromise.settledAt > uiPromise.maxWaitMs
  /\ ~uiPromise.timer

\* position of a startup step in the log of the steps run, 0 when it has not run
StepPosition(step) == IndexIn(boot.log, step, 1)

RanBefore(first, second) ==
  /\ StepPosition(first) > 0
  /\ StepPosition(first) < StepPosition(second)

\* C22: during the load, the physics engine initialization has completed when
\* the graph instantiation begins, and the UI load and the spatial UI
\* projection setup have both completed when the custom-logic load begins
C22_LoadOrder ==
  /\ StepPosition("instantiateGraph") > 0 =>
       /\ RanBefore("initializePhysics", "instantiateGraph")
       /\ boot.physics # "pending"
  /\ StepPosition("loadCustomLogics") > 0 =>
       /\ RanBefore("loadUI", "loadCustomLogics")
       /\ RanBefore("initializeUI", "loadCustomLogics")
       /\ RanBefore("setupSpatialUI", "loadCustomLogics")
  /\ boot.customLogicManager => boot.sawUI /\ boot.sawSpatialUI

C22_Witness ==
  /\ boot.pc = "running"
  /\ boot.physics = "enabled"
  /\ boot.uiInitialized
  /\ boot.customLogicManager
  /\ boot.logicUpdates > 0

\* C23: when the scene description fails to fetch, fails to parse or is not a
\* valid graph, the startup aborts: the error is shown, no node is
\* instantiated, no manager is initialized, the render loop is never started
C23_SceneFailureAborts ==
  (boot.scene # "graph" /\ boot.pc \notin {"none", "loadSceneGraph"}) =>
    /\ boot.pc = "aborted"
    /\ boot.error
    /\ boot.log = <<"loadSceneGraph">>
    /\ ~boot.nodes
    /\ boot.managers = {}
    /\ ~boot.renderLoop
    /\ boot.frames = 0
    /\ ~boot.customLogicManager

C23_Witness ==
  /\ boot.scene = "notArray"
  /\ boot.pc = "aborted"
  /\ boot.error

\* C24: in every frame, for a camera of any type whose targetMode is object
\* and whose target resolves, the tracking step run before the render
\* leaves the look-at target at the target entity's current world position
\* plus targetOffset
C24_TargetFollowsEveryFrame ==
  [][(cfg.tracking /\ TrackingUpdate) =>
       camera'.target = world.targetWorld + cfg.targetOffset]_vars

\* a child-mesh Node of the scene description
IsChildMeshNode(n) ==
  n.kind = "mesh" /\ IncludesMeshTag(n.id) /\ n.parentId # NoParent

\* instantiateNode has returned for every Node, for every Node that is not a
\* child mesh
AllProcessed == \A i \in 1..Len(graph) : graph[i].id \in loader.visited

AllOthersProcessed ==
  \A i \in 1..Len(graph) :
    ~IsChildMeshNode(graph[i]) => graph[i].id \in loader.visited

\* the Node at position i has a parentId and its object hangs under an object
HasParentApplied(i) ==
  LET child == getNodeById(objects, graph[i].id)
  IN /\ graph[i].parentId # NoParent
     /\ ~IncludesMeshTag(graph[i].id)
     /\ child # 0
     /\ objects[child].parent # 0

\* C25: the graph is instantiated in three ordered passes: a child-mesh
\* Node is processed only after every other Node has been instantiated (model
\* loads awaited), a parent relationship is applied only after every Node has
\* been processed, and a parent is resolved also when it stands after its
\* child in the scene description
C25_ThreePasses ==
  /\ \A i \in 1..Len(graph) :
       /\ (IsChildMeshNode(graph[i])
             /\ (graph[i].id \in loader.visited \/ \E k \in 1..Len(objects) : Bound(i, k)))
            => AllOthersProcessed
       /\ HasParentApplied(i) => AllProcessed
  /\ loader.phase = "second" => AllOthersProcessed
  /\ loader.phase = "third" => AllProcessed
  /\ GraphComplete =>
       \A i, j \in 1..Len(graph) :
         LET child == getNodeById(objects, graph[i].id)
             parent == getNodeById(objects, graph[j].id)
         IN (i < j /\ graph[i].parentId = graph[j].id /\ child # 0 /\ parent # 0
               /\ ~IncludesMeshTag(graph[i].id))
              => objects[child].parent = parent

\* a model loaded after its child-mesh Node and after a Node that hangs
\* under it: the sub-mesh is bound and the parent applied
C25_Witness ==
  /\ GraphComplete
  /\ \E i, j, m \in 1..Len(graph) :
       /\ i < m /\ j < m
       /\ graph[m].kind = "model"
       /\ IsChildMeshNode(graph[i]) /\ graph[i].parentId = graph[m].id
       /\ \E k \in 1..Len(objects) : Bound(i, k)
       /\ graph[j].parentId = graph[m].id
       /\ HasParentApplied(j)
       /\ objects[getNodeById(objects, graph[j].id)].parent
            = getNodeById(objects, graph[m].id)

\* the movement was applied by the handler that runs in this step
AppliedNow(movement) ==
  \E j \in 1..Len(inputGhost'.applied) : inputGhost'.applied[j] = movement

\* C26: in one input tick, and in one key press that changes the held keys,
\* of an active grounded avatar, every movement slot among forward, backward,
\* turnLeft, turnRight and jump whose binding matches has its motion applied:
\* forward and a turn held together both advance and turn, a jump pressed
\* while forward is held starts
C26_EveryMatchingSlotApplied ==
  [][((InputTick \/ (KeyDown /\ activeKeys' # activeKeys))
        /\ ic.active /\ ic.locomotionType = "Grounded Avatar") =>
       \A i \in 1..Len(Movements) :
         keyBindingMatches(ic[Movements[i]], activeKeyBindings', currentModifiers')
           => AppliedNow(Movements[i])]_vars

\* the collision observer of this frame is past the adaptive interval
CheckDue == cameraData.framesSinceCheck + 1 >= cameraData.updateInterval

MovedSignificantly == Abs(camera.position - cameraData.lastPosition) > MoveThreshold

\* the observer went on to the proximity test and the ray
CheckRan == cameraData'.framesSinceCheck = 0

\* C27: in every frame in which a collision camera is due for a check and is
\* colliding or has moved significantly since its last check, the check
\* runs: the static-frame counter suspends the checks only of a camera that
\* is static and not colliding
C27_NotSuspendedWhileColliding ==
  [][(CollisionUpdate /\ CheckDue
        /\ (cameraData.isColliding \/ MovedSignificantly)) => CheckRan]_vars

\* what the collision observer of this frame added to the position of a free
\* camera, seen when the frame has been rendered
CollisionAdjustment == camera.position - (shake.original.position + shake.offset.x)

\* C28: on a free camera with shake and collision, a position adjustment
\* made by the collision update of a frame is still in the camera's position
\* after the shake restore of that frame
C28_AdjustmentSurvivesRestore ==
  [][(ShakeAfterRender /\ ~cfg.isArc /\ cfg.collision /\ shake.original.set
        /\ CollisionAdjustment # 0)
       => camera'.position = shake.original.position + CollisionAdjustment]_vars

\* C29: the legacy isCollider flag selects the raw collider only for an
\* imported mesh: bound with isCollider and a primitive impostor type to a
\* runtime primitive (cube, ground, plane, sphere, cylinder, cone), the
\* descriptor produces a generic impostor
C29_PrimitiveGetsImpostor ==
  (Bound17 /\ target.runtimePrimitive /\ applied.props.isCollider
     /\ applied.props.impostor \in ImpostorTypes) =>
    target.physicsImpostor.attached

\* C30: after the same descriptor has been bound twice in a row, on the
\* generic and on the raw path, the entity has at most one body in the
\* physics world, and exactly one when it carries an impostor or a raw
\* collider: the body of the first binding is gone
C30_Idempotent ==
  (Bound17 /\ applied.repeated) =>
    /\ target.worldBodies <= 1
    /\ (target.physicsImpostor.attached \/ target.isRawAmmoCollider)
         => target.worldBodies = 1

\* the chords held for a key
ChordsOf(key) == {b \in activeKeyBindings : b[Len(b)] = key}

\* C31: after any sequence of key-down and key-up events the held-key set
\* holds the keys pressed and not released (a press adds its key, a release
\* removes it), the held-chord set holds exactly one chord for every held
\* key, made of the key and the modifier flags of its press, and none for a
\* released key, and a repeated key-down of a held key changes neither set
\* and applies no movement
C31_KeyTracking ==
  /\ [](/\ \A key \in activeKeys : Cardinality(ChordsOf(key)) = 1
        /\ \A b \in activeKeyBindings : b[Len(b)] \in activeKeys)
  /\ [][/\ (KeyDown /\ activeKeys' # activeKeys) =>
             \E key \in keyboard \ activeKeys :
               /\ activeKeys' = activeKeys \cup {key}
               /\ activeKeyBindings' = activeKeyBindings \cup
                    {createKeyBindingString(currentModifiers'.ctrl,
                       currentModifiers'.shift, currentModifiers'.alt, key)}
               /\ currentModifiers' = EventModifiers(activeKeys')
        /\ (KeyDown /\ activeKeys' = activeKeys) =>
             /\ activeKeyBindings' = activeKeyBindings
             /\ inputGhost'.applied = <<>>
             /\ object' = object
             /\ controlData' = controlData
        /\ KeyUp =>
             \E key \in activeKeys :
               /\ activeKeys' = activeKeys \ {key}
               /\ activeKeyBindings' = activeKeyBindings \ ChordsOf(key)]_vars

\* the modifier was released while the key pressed with it stays down, and
\* another key was pressed without it
C31_Witness ==
  /\ activeKeys = {"KeyW", "KeyS"}
  /\ activeKeyBindings = {<<"shift", "KeyW">>, <<"KeyS">>}
  /\ event = "keyDown"

\* the turns applied by the handler that runs in this step, right minus left
TurnsNow ==
  Cardinality({j \in 1..Len(inputGhost'.applied) : inputGhost'.applied[j] = "turnRight"})
    - Cardinality({j \in 1..Len(inputGhost'.applied) : inputGhost'.applied[j] = "turnLeft"})

JumpEnded ==
  /\ event = "inputTick"
  /\ object.position.y = controlData.jumpState.groundY
  /\ \/ /\ ~controlData.jumpState.isJumping
        /\ controlData.jumpState.jumpVelocity = 0
     \/ /\ "Space" \in activeKeys
        /\ controlData.jumpState.isJumping
        /\ LET v == controlData.jumpState.jumpVelocity
           IN v >= 0 /\ v * v <= 2 * Gravity * ic.jumpHeight
                     /\ (v + 1) * (v + 1) > 2 * Gravity * ic.jumpHeight

\* C33: a jump of an entity without a physics body terminates: every tick
\* lowers the tracked velocity by gravity and moves the entity by it, the
\* entity is never below its ground height, a tick that would take it to or
\* below the ground height puts it exactly there, and after finitely many
\* ticks the jump has ended at the ground height with the airborne flag
\* cleared and the velocity 0 (a held jump key then starts the next jump)
C33_JumpTerminates ==
  /\ [](object.position.y >= controlData.jumpState.groundY)
  /\ [](~controlData.jumpState.isJumping =>
          /\ controlData.jumpState.jumpVelocity = 0
          /\ object.position.y = controlData.jumpState.groundY)
  /\ [][(InputTick /\ controlData.jumpState.isJumping) =>
          LET v == controlData.jumpState.jumpVelocity - GravityPerTick
              y == object.position.y + TickMs * v
          IN IF y <= controlData.jumpState.groundY
             THEN JumpEnded'
             ELSE /\ object'.position.y = y
                  /\ controlData'.jumpState.jumpVelocity = v
                  /\ v < controlData.jumpState.jumpVelocity
                  /\ controlData'.jumpState.isJumping]_vars
  /\ controlData.jumpState.isJumping ~> JumpEnded

\* the jump key was pressed once and held: the tick has ended the jump on
\* the ground (only then is the velocity that of a fresh jump after a tick)
C33_Witness ==
  /\ event = "inputTick"
  /\ activeKeys = {"Space"}
  /\ events.keys = 1
  /\ JumpEnded
  /\ controlData.jumpState.isJumping

\* the n-th active instance is one the loop of update has to call
Updatable(n) ==
  /\ host.created
  /\ manifest[host.activeLogics[n]].enabled
  /\ HasUpdate(manifest[host.activeLogics[n]].kind)

\* C34: in every frame every enabled active instance with an update method
\* is updated, also when the update of another instance throws in that
\* frame or threw in an earlier one; every exception of an update is logged,
\* and the frame goes on to the spatial UI reprojection and is counted as
\* rendered
C34_ThrowingUpdateIsContained ==
  [][RenderLoopCallback =>
       /\ \A n \in 1..Len(host.activeLogics) :
            Updatable(n) =>
              instances'[host.activeLogics[n]].updates
                = instances[host.activeLogics[n]].updates + 1
       /\ host'.updateErrors = host.updateErrors
            + Cardinality({n \in 1..Len(host.activeLogics) :
                 Updatable(n) /\ manifest[host.activeLogics[n]].kind = "updateThrows"})
       /\ host'.reprojections = host.reprojections + 1
       /\ host'.frames = host.frames + 1]_vars

\* the first of two scripts throws in update: after two frames both have
\* been updated twice, two errors are logged and two reprojections made
C34_Witness ==
  /\ Len(manifest) = 2
  /\ manifest[1].kind = "updateThrows" /\ manifest[2].kind = "plain"
  /\ host.activeLogics = <<1, 2>>
  /\ instances[1].updates = 2 /\ instances[2].updates = 2
  /\ host.updateErrors = 2
  /\ host.reprojections = 2

\* keys of the keyboards that no binding names
UnboundKeys == {"KeyX"}

\* the held keys and chords without the keys bound to nothing
BoundOnly ==
  Mgr(activeKeys \ UnboundKeys,
      {b \in activeKeyBindings : b[Len(b)] \notin UnboundKeys},
      currentModifiers)

\* C35: one input tick applies no movement to the controlled entity more
\* than once, however many keys are held, and a held key that is bound to
\* nothing changes neither the position nor the rotation the tick gives the
\* entity
C35_OncePerTick ==
  [][InputTick =>
       /\ \A i, j \in 1..Len(inputGhost'.applied) :
            i # j => inputGhost'.applied[i] # inputGhost'.applied[j]
       /\ LET alone == inputTick(Entity, ic, BoundOnly).obj
          IN /\ object'.position = alone.position
             /\ object'.rotationY = alone.rotationY
             /\ object'.controlRotation = alone.controlRotation]_vars

\* no binding of the entity matches the held chords and modifiers
NoMovementMatches ==
  \A i \in 1..Len(Movements) :
    ~keyBindingMatches(ic[Movements[i]], activeKeyBindings, currentModifiers)

\* C36: an input tick in which no movement binding of a physics-driven
\* entity matches the held chords damps the horizontal velocity of the
\* body, whatever keys and modifiers are held
C36_DrivenOrDamped ==
  [][(InputTick /\ ic.hasPhysics /\ NoMovementMatches) =>
       /\ object'.velocity.x = Damp(object.velocity.x)
       /\ object'.velocity.z = Damp(object.velocity.z)]_vars

\* the body lies still on the surface under it
BodyAtRest ==
  /\ object.velocity.y = 0
  /\ object.position.y = object.floorY

\* C37: after a jump of a physics-driven entity, once the body has come to
\* rest on a surface of whatever height, the airborne flag is eventually
\* cleared (a held jump key may then start the next jump at once, which
\* gives the body an upward velocity)
C37_LandingClearsFlag ==
  (ic.hasPhysics /\ controlData.jumpState.isJumping /\ BodyAtRest)
    ~> (~controlData.jumpState.isJumping \/ object.velocity.y > 0)

\* the modifiers a binding names are all held
ModifiersHeld(keyBinding) ==
  /\ keyBinding.ctrl => currentModifiers.ctrl
  /\ keyBinding.shift => currentModifiers.shift
  /\ keyBinding.alt => currentModifiers.alt

\* C38: a binding that names modifiers and a key matches only while those
\* modifiers are held: once the modifier is released the binding matches no
\* more, also when the key stays down, and no tick applies its movement
C38_ChordNeedsModifier ==
  /\ [](\A i \in 1..Len(Movements) :
          keyBindingMatches(ic[Movements[i]], activeKeyBindings, currentModifiers)
            => ModifiersHeld(ic[Movements[i]]))
  /\ [][InputTick =>
          \A j \in 1..Len(inputGhost'.applied) :
            ModifiersHeld(ic[inputGhost'.applied[j]])]_vars

\* the live meshes loadModelFromAssets kept for the child-mesh Node i of the
\* model Node m
MeshesOfChild(m, i) ==
  {k \in 1..Len(objects) :
     /\ objects[k].type = "Mesh" /\ objects[k].inScene
     /\ objects[k].loadedBy = graph[m].id
     /\ objects[k].stableId = getChildTokenFromId(graph[i].id)}

\* C39: after instantiateGraph the child mesh of a model Node that has
\* visible = false or enabled = false has visibility 0, whatever the flags
\* of the child-mesh Node are
C39_HiddenParentHidesChild ==
  loader.phase \in {"done", "started"} =>
    \A m, i \in 1..Len(graph) :
      (/\ graph[m].kind = "model"
       /\ IsDeferred(graph[i]) /\ graph[i].parentId = graph[m].id
       /\ ~(graph[m].visible /\ graph[m].enabled))
        => \A k \in MeshesOfChild(m, i) : objects[k].visibility = 0

\* C40: a live mesh is given the transform of a child-mesh Node only if it
\* was loaded by the model that Node names as its parent, so the child-mesh
\* Nodes of two models are never applied to the same live mesh
C40_ChildResolvesInOwnModel ==
  \A k \in 1..Len(objects) :
    \A j \in 1..Len(objects[k].boundBy) :
      \A i \in 1..Len(graph) :
        graph[i].id = objects[k].boundBy[j] => graph[i].parentId = objects[k].loadedBy

====
